---- MODULE Spec2Model ----
(***************************************************************************)
(* crossterm-window: cell grid (buffer.rs), styles (text.rs), bordered     *)
(* windows (window.rs) and the double-buffered window manager with its     *)
(* event loop and renderer (window_manager.rs).                            *)
(*                                                                         *)
(* Conventions.  Rust indices are 0-based; a Vec<Cell> is a TLA+ sequence, *)
(* so Rust content[i] is content[i + 1] here.  A bitflags Modifier is the  *)
(* set of its flag names.  Option<Color> is "None" or a colour name.       *)
(* A String is the sequence of its extended grapheme clusters.             *)
(*                                                                         *)
(* Faults.  Every operation that can fail returns a status:                *)
(*   "ok"     it completed;                                                *)
(*   "index"  a Vec index is out of range: every build panics;             *)
(*   "debug"  a debug_assert! fails or integer arithmetic overflows: a     *)
(*            build with debug assertions panics, a build without them     *)
(*            goes on with the wrapped value.                              *)
(* The event loop turns a fault into pc = "panicked" or pc = "wrapped"     *)
(* (both absorbing; the execution after a wrap is not followed).           *)
(***************************************************************************)
EXTENDS Integers, Sequences, FiniteSets, TLC

\* ------------------------------------------------------------------ bounds
\* Terminal size reported when the manager is constructed.
GridW == 12
GridH == 6
\* Frames (completed update_screen calls) followed in one run.
MaxFrames == 2
\* Resize events followed in one run.
MaxResizes == 1

U16 == 65536

Min(a, b) == IF a < b THEN a ELSE b
Max(a, b) == IF a > b THEN a ELSE b

\* A Vec from the function giving its elements: the same sequence, held by
\* TLC as an explicit tuple.
Vec(f) == f \o <<>>

\* usize::saturating_sub
SatSub(a, b) == IF a > b THEN a - b ELSE 0

\* u16::saturating_add_signed
SatAddSigned(v, d) == Max(0, Min(U16 - 1, v + d))

\* ------------------------------------------------------------ text.rs
Modifier ==
  {"BOLD", "DIM", "ITALIC", "UNDERLINED", "SLOW_BLINK", "RAPID_BLINK",
   "REVERSED", "HIDDEN", "CROSSED_OUT"}

StyleNew == [fg |-> "None", bg |-> "None", add_modifier |-> {}, sub_modifier |-> {}]

StyleDefault == StyleNew

\* Style::reset
StyleReset ==
  [fg |-> "Reset", bg |-> "Reset", add_modifier |-> {}, sub_modifier |-> Modifier]

\* Style::fg and Style::bg
StyleFg(style, color) == [style EXCEPT !.fg = color]

StyleBg(style, color) == [style EXCEPT !.bg = color]

\* Variant of Style::add_modifier that leaves sub_modifier as it is.
StyleAddModifierKeepSub(style, modifier) ==
  [style EXCEPT !.add_modifier = @ \cup modifier]

\* Style::add_modifier
StyleAddModifier(style, modifier) ==
  [style EXCEPT !.sub_modifier = @ \ modifier,
                !.add_modifier = @ \cup modifier]

\* Style::remove_modifier
StyleRemoveModifier(style, modifier) ==
  [style EXCEPT !.add_modifier = @ \ modifier,
                !.sub_modifier = @ \cup modifier]

\* Variant of Style::patch that clears self's own sub_modifier from
\* add_modifier instead of other's.
StylePatchOwnSub(self, other) ==
  [fg |-> IF other.fg # "None" THEN other.fg ELSE self.fg,
   bg |-> IF other.bg # "None" THEN other.bg ELSE self.bg,
   add_modifier |-> (self.add_modifier \ self.sub_modifier) \cup other.add_modifier,
   sub_modifier |-> (self.sub_modifier \ other.add_modifier) \cup other.sub_modifier]

\* Style::patch; Option::or keeps other's colour when it is Some.
StylePatch(self, other) ==
  [fg |-> IF other.fg # "None" THEN other.fg ELSE self.fg,
   bg |-> IF other.bg # "None" THEN other.bg ELSE self.bg,
   add_modifier |-> (self.add_modifier \ other.sub_modifier) \cup other.add_modifier,
   sub_modifier |-> (self.sub_modifier \ other.add_modifier) \cup other.sub_modifier]

\* ------------------------------------------------------------ buffer.rs
DefaultCell ==
  [symbol |-> " ", fg |-> "Reset", bg |-> "Reset", modifier |-> {}, skip |-> FALSE]

CellSetSymbol(cell, symbol) == [cell EXCEPT !.symbol = symbol]

CellSetStyle(cell, style) ==
  [cell EXCEPT
     !.fg = IF style.fg # "None" THEN style.fg ELSE @,
     !.bg = IF style.bg # "None" THEN style.bg ELSE @,
     !.modifier = (@ \cup style.add_modifier) \ style.sub_modifier]

CellReset(cell) == DefaultCell

\* Display width of a grapheme (unicode_width): the wide and the zero-width
\* graphemes the model uses; everything else is one column.
WideGraphemes == {"W"}
ZeroWidthGraphemes == {"z"}
GraphemeWidth(s) ==
  IF s \in WideGraphemes THEN 2 ELSE IF s \in ZeroWidthGraphemes THEN 0 ELSE 1

\* a * b in u16 arithmetic (wrapping), computed by halves of a so that no
\* intermediate value leaves 32 bits.
MulU16(a, b) ==
  ((a % 256) * b + (((a \div 256) * b) % 256) * 256) % U16

\* (width * height) as usize, the product taken in u16.
BufferSize(width, height) == MulU16(width, height)

BufferFilled(width, height, cell) ==
  [width |-> width, height |-> height,
   content |-> Vec([i \in 1..BufferSize(width, height) |-> cell])]

BufferEmpty(width, height) == BufferFilled(width, height, DefaultCell)

\* Vec::resize keeps the leading cells by index and pads with default cells.
BufferResize(buf, width, height) ==
  [width |-> width, height |-> height,
   content |-> Vec([i \in 1..BufferSize(width, height) |->
                      IF i <= Len(buf.content) THEN buf.content[i] ELSE DefaultCell])]

BufferArea(buf) == MulU16(buf.width, buf.height)

\* Variant of Buffer::reset that leaves the cells as they are.
BufferResetNoop(buf) == buf

\* Buffer::reset
BufferReset(buf) ==
  [buf EXCEPT !.content =
     Vec([i \in 1..Len(buf.content) |-> CellReset(buf.content[i])])]

\* debug_assert!(x < self.width && y < self.height)
IndexInside(buf, x, y) == x < buf.width /\ y < buf.height

IndexOf(buf, x, y) == (y * buf.width + x) % U16

PosOf(buf, i) == <<(i % U16) % buf.width, (i % U16) \div buf.width>>

\* Variant of the loop that skips a grapheme that does not fit and goes on
\* with the next one.
RECURSIVE SetStringLoopSkip(_, _, _, _, _, _)
SetStringLoopSkip(content, index, x_offset, max_offset, gs, style) ==
  IF gs = <<>> THEN [content |-> content, x_offset |-> x_offset]
  ELSE IF GraphemeWidth(Head(gs)) = 0
          \/ GraphemeWidth(Head(gs)) > SatSub(max_offset, x_offset)
  THEN SetStringLoopSkip(content, index, x_offset, max_offset, Tail(gs), style)
  ELSE SetStringLoopSkip(
         [i \in 1..Len(content) |->
            IF i = index + 1 THEN CellSetStyle(CellSetSymbol(content[i], Head(gs)), style)
            ELSE IF i - 1 > index /\ i - 1 < index + GraphemeWidth(Head(gs))
            THEN CellReset(content[i]) ELSE content[i]],
         index + GraphemeWidth(Head(gs)), x_offset + GraphemeWidth(Head(gs)),
         max_offset, Tail(gs), style)

\* Variant of the loop that leaves the cells after a wide grapheme alone.
RECURSIVE SetStringLoopNoBlank(_, _, _, _, _, _)
SetStringLoopNoBlank(content, index, x_offset, max_offset, gs, style) ==
  IF gs = <<>> THEN [content |-> content, x_offset |-> x_offset]
  ELSE IF GraphemeWidth(Head(gs)) = 0
  THEN SetStringLoopNoBlank(content, index, x_offset, max_offset, Tail(gs), style)
  ELSE IF GraphemeWidth(Head(gs)) > SatSub(max_offset, x_offset)
  THEN [content |-> content, x_offset |-> x_offset]
  ELSE SetStringLoopNoBlank(
         [content EXCEPT ![index + 1] = CellSetStyle(CellSetSymbol(@, Head(gs)), style)],
         index + GraphemeWidth(Head(gs)), x_offset + GraphemeWidth(Head(gs)),
         max_offset, Tail(gs), style)

\* The loop of set_stringn over the graphemes gs, from cell `index`; the
\* blanking range index + 1 .. index + width is empty for a narrow grapheme.
RECURSIVE SetStringLoop(_, _, _, _, _, _)
SetStringLoop(content, index, x_offset, max_offset, gs, style) ==
  IF gs = <<>> THEN [content |-> content, x_offset |-> x_offset]
  ELSE LET s == Head(gs)
           width == GraphemeWidth(s)
       IN IF width = 0
          THEN SetStringLoop(content, index, x_offset, max_offset, Tail(gs), style)
          ELSE IF width > SatSub(max_offset, x_offset)
          THEN [content |-> content, x_offset |-> x_offset]
          ELSE LET placed ==
                     [content EXCEPT
                        ![index + 1] = CellSetStyle(CellSetSymbol(@, s), style)]
                   blanked ==
                     IF index + 1 >= index + width THEN placed
                     ELSE Vec([i \in 1..Len(placed) |->
                                 IF i - 1 > index /\ i - 1 < index + width
                                 THEN CellReset(placed[i]) ELSE placed[i]])
               IN SetStringLoop(blanked, index + width, x_offset + width,
                                max_offset, Tail(gs), style)

\* Buffer::set_stringn on r = [buf, st]; the result also carries the
\* returned position.
SetStringN(r, x, y, string, width, style) ==
  IF r.st # "ok" THEN [buf |-> r.buf, st |-> r.st, pos |-> <<x, y>>]
  ELSE IF ~IndexInside(r.buf, x, y)
  THEN [buf |-> r.buf, st |-> "debug", pos |-> <<x, y>>]
  ELSE LET max_offset == Min(r.buf.width, width + x)
           out == SetStringLoop(r.buf.content, IndexOf(r.buf, x, y), x,
                                max_offset, string, style)
       IN [buf |-> [r.buf EXCEPT !.content = out.content], st |-> "ok",
           pos |-> <<out.x_offset % U16, y>>]

\* Buffer::insert on r = [buf, st]: every cell of `other` copied verbatim.
BufferInsert(r, x, y, other) ==
  IF r.st # "ok" THEN r
  ELSE IF \E i \in 0..(Len(other.content) - 1) :
            ~IndexInside(r.buf, x + PosOf(other, i)[1], y + PosOf(other, i)[2])
  THEN [buf |-> r.buf, st |-> "debug"]
  ELSE [buf |-> [r.buf EXCEPT !.content =
                   Vec([j \in 1..Len(r.buf.content) |->
                          LET xs == (j - 1) % r.buf.width
                              ys == (j - 1) \div r.buf.width
                          IN IF xs >= x /\ xs < x + other.width
                                /\ ys >= y /\ ys < y + other.height
                             THEN other.content[(ys - y) * other.width + (xs - x) + 1]
                             ELSE r.buf.content[j]])],
        st |-> "ok"]

\* Variant of the scan that stops one index short of the area.
DiffScanShort(one, two) ==
  SelectSeq(Vec([k \in 1..(BufferArea(one) - 1) |-> k - 1]),
            LAMBDA index : one.content[index + 1] # two.content[index + 1])

\* BufferDiffIterator::next run to exhaustion: index scans 0, 1, .. while
\* index + 1 <= buffer_one.area(), and yields wherever the cells differ.
DiffScan(one, two) ==
  SelectSeq(Vec([k \in 1..BufferArea(one) |-> k - 1]),
            LAMBDA index : one.content[index + 1] # two.content[index + 1])

\* The (x, y, cell) yielded for index: the cell is buffer_two's.
DiffEntry(two, index) ==
  [x |-> (index % U16) % two.width,
   y |-> (index % U16) \div two.width,
   cell |-> two.content[index + 1]]

\* Variant of the entry and of diff that carry buffer_one's cell.
DiffEntryStale(one, two, index) ==
  [x |-> (index % U16) % two.width,
   y |-> (index % U16) \div two.width,
   cell |-> one.content[index + 1]]

BufferDiffStale(one, two) ==
  LET scan == DiffScan(one, two)
  IN Vec([k \in 1..Len(scan) |-> DiffEntryStale(one, two, scan[k])])

\* Buffer::diff, collected: self = one, other = two.
BufferDiff(one, two) ==
  LET scan == DiffScan(one, two)
  IN Vec([k \in 1..Len(scan) |-> DiffEntry(two, scan[k])])


\* ------------------------------------------------------------ window.rs
Rect(x, y, width, height) == [x |-> x, y |-> y, width |-> width, height |-> height]

\* ContentInfo; scroll_pos (f32) is the rational <<numerator, denominator>>.
ContentInfoDefault == [scroll |-> FALSE, scroll_pos |-> <<0, 1>>]

ContentInfoPos(pos) == [scroll |-> TRUE, scroll_pos |-> pos]

\* WindowContentNone
NoneRedraw(content, buf) ==
  [content |-> content, buf |-> buf, info |-> ContentInfoDefault, st |-> "ok"]

NoneUpdate(content, buf) ==
  [content |-> content, buf |-> buf, info |-> ContentInfoDefault, st |-> "ok"]

NoneEvent(content, buf) ==
  [content |-> [content EXCEPT !.events = @ + 1], buf |-> buf,
   info |-> ContentInfoDefault, st |-> "ok"]

\* format!("{}", int): the decimal digits of int.
DigitChars == <<"0", "1", "2", "3", "4", "5", "6", "7", "8", "9">>

RECURSIVE Digits(_)
Digits(n) ==
  IF n < 10 THEN <<DigitChars[n + 1]>>
  ELSE Digits(n \div 10) \o <<DigitChars[(n % 10) + 1]>>

\* format!("number: {}", self.int)
NumberText(int) == <<"n", "u", "m", "b", "e", "r", ":", " ">> \o Digits(int)

\* The max_width both set_stringn calls of WindowContentTest pass.
TestTextWidth == 20

\* WindowContentTest (lib.rs tests), content = [kind |-> "Test", int |-> n,
\* events |-> k]; events (kept for WindowContentNone too) counts the calls of
\* event, which the contents themselves do not record.
TestRedraw(content, buf) ==
  LET r == SetStringN([buf |-> buf, st |-> "ok"], 0, 0, NumberText(content.int),
                      TestTextWidth, StyleDefault)
  IN [content |-> content, buf |-> r.buf, info |-> ContentInfoPos(<<3, 10>>),
      st |-> r.st]

TestUpdate(content, buf) ==
  LET c == [content EXCEPT !.int = @ + 1]
      r == SetStringN([buf |-> buf, st |-> "ok"], 0, 0, NumberText(c.int),
                      TestTextWidth, StyleDefault)
  IN [content |-> c, buf |-> r.buf, info |-> ContentInfoPos(<<3, 10>>), st |-> r.st]

TestEvent(content, buf) ==
  [content |-> [content EXCEPT !.events = @ + 1], buf |-> buf,
   info |-> ContentInfoPos(<<3, 10>>), st |-> "ok"]

\* Dynamic dispatch over Box<dyn WindowContent>.
ContentRedraw(content, buf) ==
  IF content.kind = "Test" THEN TestRedraw(content, buf) ELSE NoneRedraw(content, buf)

ContentUpdate(content, buf) ==
  IF content.kind = "Test" THEN TestUpdate(content, buf) ELSE NoneUpdate(content, buf)

ContentEvent(content, buf) ==
  IF content.kind = "Test" THEN TestEvent(content, buf) ELSE NoneEvent(content, buf)

\* Border glyphs (ASCII stand-ins for the box-drawing characters of
\* draw_border, each one column wide like the originals).
GlyphTopLeft == "tl"
GlyphTopRight == "tr"
GlyphBottomLeft == "bl"
GlyphBottomRight == "br"
GlyphHorizontal == "--"
GlyphVertical == "|"
GlyphUp == "^"
GlyphDown == "v"
GlyphTrack == ":"
GlyphThumb == "#"

\* str::len; the titles of the model are ASCII, one byte per grapheme.
StrLen(string) == Len(string)

\* One set_stringn call of draw_border.
Call(x, y, string, width) == [x |-> x, y |-> y, string |-> string, width |-> width]

\* for i in from..to { set_stringn(xf(i), yf(i), glyph, 1, ..) }, to exclusive.
CallsOver(from, to, fx(_), fy(_), glyph) ==
  Vec([k \in 1..(IF to > from THEN to - from ELSE 0) |->
         Call(fx(from + k - 1), fy(from + k - 1), <<glyph>>, 1)])

\* ((area.height - 4) as f32 * info.scroll_pos) as u16
ThumbPos(area, info) ==
  ((area.height - 4) * info.scroll_pos[1]) \div info.scroll_pos[2]

\* The subtractions of draw_border that can overflow.
BorderArithmetic(area, info) ==
  IF area.width < 2 \/ (info.scroll /\ area.height < 4) THEN "debug" ELSE "ok"

\* The set_stringn calls of draw_border, in the order the code makes them.
BorderCalls(area, title, info) ==
  LET len == Min(StrLen(title), area.width - 2)
      right == area.x + area.width - 1
      AtX(i) == area.x + i
      AtY(i) == area.y + i
      Left(i) == area.x
      Right(i) == right
      Top(i) == area.y
      Bottom(i) == area.y + area.height
      top == << Call(area.x, area.y, <<GlyphTopLeft>>, 1),
                Call(area.x + 1, area.y, title, len) >>
             \o CallsOver(len + 1, area.width - 1, AtX, Top, GlyphHorizontal)
             \o << Call(right, area.y, <<GlyphTopRight>>, 1) >>
      left == CallsOver(1, area.height, Left, AtY, GlyphVertical)
      side == IF info.scroll
              THEN << Call(right, area.y + 1, <<GlyphUp>>, 1),
                      Call(right, area.y + area.height - 1, <<GlyphDown>>, 1) >>
                   \o CallsOver(2, area.height - 1, Right, AtY, GlyphTrack)
                   \o << Call(right, area.y + 2 + ThumbPos(area, info),
                              <<GlyphThumb>>, 1) >>
              ELSE CallsOver(1, area.height, Right, AtY, GlyphVertical)
      bottom == << Call(area.x, area.y + area.height, <<GlyphBottomLeft>>, 1) >>
                \o CallsOver(1, area.width - 1, AtX, Bottom, GlyphHorizontal)
                \o << Call(right, area.y + area.height, <<GlyphBottomRight>>, 1) >>
  IN top \o left \o side \o bottom

\* The calls lo..hi made one after the other on r = [buf, st] (the range is
\* split in halves to keep the evaluation shallow).
RECURSIVE ApplyCalls(_, _, _, _)
ApplyCalls(r, calls, lo, hi) ==
  IF lo > hi \/ r.st # "ok" THEN [buf |-> r.buf, st |-> r.st]
  ELSE IF lo = hi
  THEN LET c == calls[lo]
           n == SetStringN(r, c.x, c.y, c.string, c.width, StyleDefault)
       IN [buf |-> n.buf, st |-> n.st]
  ELSE ApplyCalls(ApplyCalls(r, calls, lo, (lo + hi) \div 2),
                  calls, ((lo + hi) \div 2) + 1, hi)

\* draw_border on r = [buf, st]
DrawBorder(r, area, title, info) ==
  IF r.st # "ok" THEN r
  ELSE IF BorderArithmetic(area, info) # "ok"
  THEN [buf |-> r.buf, st |-> BorderArithmetic(area, info)]
  ELSE LET calls == BorderCalls(area, title, info)
       IN ApplyCalls(r, calls, 1, Len(calls))

\* Window::new; area.width - 2 and area.height - 2 are u16 subtractions.
WindowNew(title, area, content) ==
  [win |-> [title |-> title, area |-> area,
            buffer |-> BufferEmpty((area.width - 2) % U16, (area.height - 2) % U16),
            content |-> content, content_info |-> ContentInfoDefault],
   st |-> IF area.width < 2 \/ area.height < 2 THEN "debug" ELSE "ok"]

\* Window::resize
WindowResize(win, width, height) ==
  LET b == BufferResize(win.buffer, width, height)
      c == ContentRedraw(win.content, b)
  IN [win |-> [win EXCEPT !.area.width = width, !.area.height = height,
                          !.buffer = c.buf, !.content = c.content,
                          !.content_info = c.info],
      st |-> c.st]

\* Window::resize_by
WindowResizeBy(win, width, height) ==
  WindowResize(win, SatAddSigned(win.area.width, width),
               SatAddSigned(win.area.height, height))

\* Window::move_to
WindowMoveTo(win, x, y) == [win EXCEPT !.area.x = x, !.area.y = y]

\* Window::move_by
WindowMoveBy(win, x, y) ==
  [win EXCEPT !.area.x = SatAddSigned(@, x), !.area.y = SatAddSigned(@, y)]

\* Window::event
WindowEvent(win) ==
  LET c == ContentEvent(win.content, win.buffer)
  IN [win |-> [win EXCEPT !.buffer = c.buf, !.content = c.content,
                          !.content_info = c.info],
      st |-> c.st]

\* Window::update
WindowUpdate(win) ==
  LET c == ContentUpdate(win.content, win.buffer)
  IN [win |-> [win EXCEPT !.buffer = c.buf, !.content = c.content,
                          !.content_info = c.info],
      st |-> c.st]

\* Window::draw on r = [buf, st]
WindowDraw(win, r) ==
  DrawBorder(BufferInsert(r, win.area.x + 1, win.area.y + 1, win.buffer),
             win.area, win.title, win.content_info)

\* ---------------------------------------------------- window_manager.rs
Emit(cond, attr) == IF cond THEN <<attr>> ELSE <<>>

\* Variants of ModifierDiff::queue: reset everything and re-apply `to`; and
\* normal intensity without re-enabling dim.
ModifierDiffResetAll(from, to) ==
  <<"Reset">>
     \o Emit("REVERSED" \in to, "Reverse")
     \o Emit("BOLD" \in to, "Bold")
     \o Emit("ITALIC" \in to, "Italic")
     \o Emit("UNDERLINED" \in to, "Underlined")
     \o Emit("DIM" \in to, "Dim")
     \o Emit("CROSSED_OUT" \in to, "CrossedOut")
     \o Emit("SLOW_BLINK" \in to, "SlowBlink")
     \o Emit("RAPID_BLINK" \in to, "RapidBlink")

ModifierDiffNoDim(from, to) ==
  Emit("REVERSED" \in from \ to, "NoReverse")
     \o Emit("BOLD" \in from \ to, "NormalIntensity")
     \o Emit("ITALIC" \in from \ to, "NoItalic")
     \o Emit("UNDERLINED" \in from \ to, "NoUnderline")
     \o Emit("DIM" \in from \ to, "NormalIntensity")
     \o Emit("CROSSED_OUT" \in from \ to, "NotCrossedOut")
     \o Emit("SLOW_BLINK" \in from \ to \/ "RAPID_BLINK" \in from \ to, "NoBlink")
     \o Emit("REVERSED" \in to \ from, "Reverse")
     \o Emit("BOLD" \in to \ from, "Bold")
     \o Emit("ITALIC" \in to \ from, "Italic")
     \o Emit("UNDERLINED" \in to \ from, "Underlined")
     \o Emit("DIM" \in to \ from, "Dim")
     \o Emit("CROSSED_OUT" \in to \ from, "CrossedOut")
     \o Emit("SLOW_BLINK" \in to \ from, "SlowBlink")
     \o Emit("RAPID_BLINK" \in to \ from, "RapidBlink")

\* ModifierDiff::queue: the SetAttribute directives, in the order queued.
ModifierDiffQueue(from, to) ==
  LET removed == from \ to
      added == to \ from
  IN Emit("REVERSED" \in removed, "NoReverse")
     \o (IF "BOLD" \in removed
         THEN <<"NormalIntensity">> \o Emit("DIM" \in to, "Dim")
         ELSE <<>>)
     \o Emit("ITALIC" \in removed, "NoItalic")
     \o Emit("UNDERLINED" \in removed, "NoUnderline")
     \o Emit("DIM" \in removed, "NormalIntensity")
     \o Emit("CROSSED_OUT" \in removed, "NotCrossedOut")
     \o Emit("SLOW_BLINK" \in removed \/ "RAPID_BLINK" \in removed, "NoBlink")
     \o Emit("REVERSED" \in added, "Reverse")
     \o Emit("BOLD" \in added, "Bold")
     \o Emit("ITALIC" \in added, "Italic")
     \o Emit("UNDERLINED" \in added, "Underlined")
     \o Emit("DIM" \in added, "Dim")
     \o Emit("CROSSED_OUT" \in added, "CrossedOut")
     \o Emit("SLOW_BLINK" \in added, "SlowBlink")
     \o Emit("RAPID_BLINK" \in added, "RapidBlink")

\* One queued backend command: MoveTo(x, y), SetAttribute(arg),
\* SetForegroundColor(arg), SetBackgroundColor(arg) or Print(arg).
Cmd(op, x, y, arg) == [op |-> op, x |-> x, y |-> y, arg |-> arg]

NoPos == [some |-> FALSE, x |-> 0, y |-> 0]

\* The sequences ss[lo], .., ss[hi] joined in order.
RECURSIVE Concat(_, _, _)
Concat(ss, lo, hi) ==
  IF lo > hi THEN <<>>
  ELSE IF lo = hi THEN ss[lo]
  ELSE Concat(ss, lo, (lo + hi) \div 2) \o Concat(ss, ((lo + hi) \div 2) + 1, hi)

\* The running variables fg, bg, modifier and last_pos of
\* WindowManager::draw after the first k diff entries: each iteration leaves
\* them equal to its entry's values.
DrawState(diff, k) ==
  IF k = 0
  THEN [fg |-> "Reset", bg |-> "Reset", modifier |-> {}, last_pos |-> NoPos]
  ELSE [fg |-> diff[k].cell.fg, bg |-> diff[k].cell.bg,
        modifier |-> diff[k].cell.modifier,
        last_pos |-> [some |-> TRUE, x |-> diff[k].x, y |-> diff[k].y]]

\* Variant of the iteration that queues the colours before the attributes.
DrawEntryColorsFirst(s, e) ==
  LET q == ModifierDiffQueue(s.modifier, e.cell.modifier)
      move == IF ~(s.last_pos.some /\ e.x = s.last_pos.x + 1 /\ e.y = s.last_pos.y)
              THEN <<Cmd("MoveTo", e.x, e.y, "")>> ELSE <<>>
      mods == IF e.cell.modifier # s.modifier
              THEN Vec([k \in 1..Len(q) |-> Cmd("SetAttribute", 0, 0, q[k])])
              ELSE <<>>
      fgc == IF e.cell.fg # s.fg
             THEN <<Cmd("SetForegroundColor", 0, 0, e.cell.fg)>> ELSE <<>>
      bgc == IF e.cell.bg # s.bg
             THEN <<Cmd("SetBackgroundColor", 0, 0, e.cell.bg)>> ELSE <<>>
  IN move \o fgc \o bgc \o mods \o <<Cmd("Print", 0, 0, e.cell.symbol)>>

\* One iteration of the loop of WindowManager::draw, for the entry e.
DrawEntry(s, e) ==
  LET q == ModifierDiffQueue(s.modifier, e.cell.modifier)
      move == IF ~(s.last_pos.some /\ e.x = s.last_pos.x + 1 /\ e.y = s.last_pos.y)
              THEN <<Cmd("MoveTo", e.x, e.y, "")>> ELSE <<>>
      mods == IF e.cell.modifier # s.modifier
              THEN Vec([k \in 1..Len(q) |-> Cmd("SetAttribute", 0, 0, q[k])])
              ELSE <<>>
      fgc == IF e.cell.fg # s.fg
             THEN <<Cmd("SetForegroundColor", 0, 0, e.cell.fg)>> ELSE <<>>
      bgc == IF e.cell.bg # s.bg
             THEN <<Cmd("SetBackgroundColor", 0, 0, e.cell.bg)>> ELSE <<>>
  IN move \o mods \o fgc \o bgc \o <<Cmd("Print", 0, 0, e.cell.symbol)>>

\* WindowManager::draw: the commands queued for one diff.
Draw(diff) ==
  Concat([k \in 1..Len(diff) |-> DrawEntry(DrawState(diff, k - 1), diff[k])],
         1, Len(diff))
  \o << Cmd("SetForegroundColor", 0, 0, "Reset"),
        Cmd("SetBackgroundColor", 0, 0, "Reset"),
        Cmd("SetAttribute", 0, 0, "Reset") >>

\* ------------------------------------------------- the terminal backend
\* What a terminal does with the commands (outside the repository): the
\* positions the screen has, the effect of each attribute directive, and
\* Print writing the grapheme at the cursor in the current colours and
\* attributes and advancing the cursor by the grapheme's width.  Its cells
\* are held as a Buffer of the size the terminal had at the start.

AttrEffect(attrs, a) ==
  CASE a = "Reset" -> {}
    [] a = "NoReverse" -> attrs \ {"REVERSED"}
    [] a = "NormalIntensity" -> attrs \ {"BOLD", "DIM"}
    [] a = "NoItalic" -> attrs \ {"ITALIC"}
    [] a = "NoUnderline" -> attrs \ {"UNDERLINED"}
    [] a = "NotCrossedOut" -> attrs \ {"CROSSED_OUT"}
    [] a = "NoBlink" -> attrs \ {"SLOW_BLINK", "RAPID_BLINK"}
    [] a = "Reverse" -> attrs \cup {"REVERSED"}
    [] a = "Bold" -> attrs \cup {"BOLD"}
    [] a = "Italic" -> attrs \cup {"ITALIC"}
    [] a = "Underlined" -> attrs \cup {"UNDERLINED"}
    [] a = "Dim" -> attrs \cup {"DIM"}
    [] a = "CrossedOut" -> attrs \cup {"CROSSED_OUT"}
    [] a = "SlowBlink" -> attrs \cup {"SLOW_BLINK"}
    [] a = "RapidBlink" -> attrs \cup {"RAPID_BLINK"}

RECURSIVE ApplyAttrs(_, _)
ApplyAttrs(attrs, directives) ==
  IF directives = <<>> THEN attrs
  ELSE ApplyAttrs(AttrEffect(attrs, Head(directives)), Tail(directives))

\* t = [cx, cy, fg, bg, attrs, cells, printed, queue]: the terminal takes
\* the next command off its input queue.
TermStep(t) ==
  LET c == Head(t.queue)
      rest == [t EXCEPT !.queue = Tail(@)]
  IN CASE c.op = "MoveTo" -> [rest EXCEPT !.cx = c.x, !.cy = c.y]
       [] c.op = "SetForegroundColor" -> [rest EXCEPT !.fg = c.arg]
       [] c.op = "SetBackgroundColor" -> [rest EXCEPT !.bg = c.arg]
       [] c.op = "SetAttribute" ->
            IF c.arg = "Reset"
            THEN [rest EXCEPT !.attrs = {}, !.fg = "Reset", !.bg = "Reset"]
            ELSE [rest EXCEPT !.attrs = AttrEffect(@, c.arg)]
       [] c.op = "Print" ->
            [rest EXCEPT
               !.cells = IF IndexInside(@, t.cx, t.cy)
                         THEN [@ EXCEPT !.content[IndexOf(t.cells, t.cx, t.cy) + 1] =
                                 [symbol |-> c.arg, fg |-> t.fg, bg |-> t.bg,
                                  modifier |-> t.attrs, skip |-> FALSE]]
                         ELSE @,
               !.printed = @ \cup {<<t.cx, t.cy>>},
               !.cx = @ + GraphemeWidth(c.arg)]

\* The terminal takes the next n commands off its queue (the count is split
\* in halves to keep the evaluation shallow).
RECURSIVE TermTake(_, _)
TermTake(t, n) ==
  IF t.queue = <<>> \/ n = 0 THEN t
  ELSE IF n = 1 THEN TermStep(t)
  ELSE TermTake(TermTake(t, n \div 2), n - (n \div 2))

\* The terminal after it has consumed everything queued to it.
TermRun(t, cmds) == TermTake([t EXCEPT !.queue = cmds], Len(cmds))

\* ------------------------------------------------------------- state
VARIABLES
  buffers,       \* WindowManager.buffers: [0..1 -> Buffer]
  current,       \* WindowManager.current
  should_exit,   \* WindowManager.should_exit
  width,         \* WindowManager.width
  height,        \* WindowManager.height
  windows,       \* WindowManager.windows
  pc,            \* where run is: "running", "returned", "panicked", "wrapped"
  screen,        \* the terminal's cells, by position
  term,          \* the terminal's cursor, colours and attributes
  nframes,       \* history: update_screen calls completed
  nresizes,      \* history: Resize events handled
  comp,          \* history: the grid composited in the latest completed frame
  prevComp,      \* history: the grid composited in the frame before it
  emitted,       \* history: the positions printed in the latest completed frame
  onlyWinKeys,   \* history: every key so far was a Control(+Shift)+arrow binding
  lastEvent,     \* history: what the latest iteration of run got from poll/read
  d_one, d_two, d_out, d_pc,    \* Buffer::diff taken alone (SpecDiff)
  m_from, m_to, m_out, m_pc,    \* ModifierDiff taken alone (SpecMod)
  f_op, f_in, f_out,            \* a function taken alone: its name, inputs, results
  budget,        \* run: next_frame.duration_since(now), in milliseconds
  pending        \* the events the terminal holds unread

mgrVars ==
  <<buffers, current, should_exit, width, height, windows, pc, screen, term,
    nframes, nresizes, comp, prevComp, emitted, onlyWinKeys, lastEvent>>
diffVars == <<d_one, d_two, d_out, d_pc>>
modVars == <<m_from, m_to, m_out, m_pc>>
fnVars == <<f_op, f_in, f_out>>
clockVars == <<budget, pending>>
vars == <<mgrVars, diffVars, modVars, fnVars, clockVars>>

\* WindowManager.current_window is never assigned after new().
CurrentWindow == 0

\* The window of the repository's test, scaled to the model's terminal:
\* wide enough for "number: N" inside the border.
TestWindow ==
  WindowNew(<<"T", "e", "s", "t">>, Rect(0, 0, 11, 4),
            [kind |-> "Test", int |-> 0, events |-> 0]).win

\* The window lists run starts with: none, or the test's single window.
WinConfigs == { <<>>, <<TestWindow>> }

\* The sizes a Resize event reports.
TermSizes == { <<GridW, GridH>>, <<GridW - 1, GridH>>, <<GridW, GridH - 1>> }

\* The key events the model delivers: every binding of handle_manager_keys,
\* and keys it passes through (a plain character, an arrow with Shift alone,
\* Control with another character, Control+Shift with a non-arrow key).
Chars == {"c", "x"}
Arrows == {"Left", "Up", "Right", "Down"}
Key(code, ctrl, shift) == [code |-> code, ctrl |-> ctrl, shift |-> shift]
Keys ==
  { Key(c, TRUE, FALSE) : c \in Arrows \cup Chars \cup {"PageDown", "PageUp"} }
    \cup { Key(c, TRUE, TRUE) : c \in Arrows \cup {"x"} }
    \cup { Key("x", FALSE, FALSE), Key("Left", FALSE, TRUE) }

\* What one iteration of run got: poll timed out ("timeout"), or read
\* returned an event of this kind (with its key when it is a Key event).
NoKey == Key("", FALSE, FALSE)
Polled(kind, e) == [kind |-> kind, key |-> e]

\* WindowManager::new
ManagerNew(w, h) ==
  [buffers |-> [i \in {0, 1} |-> BufferEmpty(w, h)], current |-> 0,
   should_exit |-> FALSE, width |-> w, height |-> h, windows |-> <<>>]

\* The arm of handle_manager_keys the key event e takes.
KeyBinding(e) ==
  IF ~e.ctrl THEN "pass"
  ELSE IF e.shift THEN (IF e.code \in Arrows THEN "resize_by" ELSE "pass")
  ELSE IF e.code \in Arrows THEN "move_by"
  ELSE IF e.code = "c" THEN "exit"
  ELSE IF e.code = "PageDown" THEN "rotate_down"
  ELSE IF e.code = "PageUp" THEN "rotate_up"
  ELSE "pass"

\* The step an arrow key stands for: Left/Up are -1, Right/Down are 1.
StepX(code) == IF code = "Left" THEN -1 ELSE IF code = "Right" THEN 1 ELSE 0
StepY(code) == IF code = "Up" THEN -1 ELSE IF code = "Down" THEN 1 ELSE 0

\* self.windows[self.current_window].resize_by(..), the index checked first.
ResizeFocused(ws, exit, e) ==
  IF CurrentWindow >= Len(ws)
  THEN [windows |-> ws, should_exit |-> exit, passthrough |-> FALSE, st |-> "index"]
  ELSE LET r == WindowResizeBy(ws[CurrentWindow + 1], StepX(e.code), StepY(e.code))
       IN [windows |-> [ws EXCEPT ![CurrentWindow + 1] = r.win],
           should_exit |-> exit, passthrough |-> FALSE, st |-> r.st]

\* self.windows[self.current_window].move_by(..), the index checked first.
MoveFocused(ws, exit, e) ==
  IF CurrentWindow >= Len(ws)
  THEN [windows |-> ws, should_exit |-> exit, passthrough |-> FALSE, st |-> "index"]
  ELSE [windows |-> [ws EXCEPT ![CurrentWindow + 1] =
                       WindowMoveBy(@, StepX(e.code), StepY(e.code))],
        should_exit |-> exit, passthrough |-> FALSE, st |-> "ok"]

\* Variant of handle_manager_keys whose PageUp arm does what the PageDown
\* arm does.
HandleManagerKeysUpAsDown(ws, exit, e) ==
  CASE KeyBinding(e) = "resize_by" -> ResizeFocused(ws, exit, e)
    [] KeyBinding(e) = "move_by" -> MoveFocused(ws, exit, e)
    [] KeyBinding(e) = "exit" ->
         [windows |-> ws, should_exit |-> TRUE, passthrough |-> FALSE, st |-> "ok"]
    [] KeyBinding(e) \in {"rotate_down", "rotate_up"} ->
         [windows |-> IF Len(ws) # 0 THEN Tail(ws) \o <<Head(ws)>> ELSE ws,
          should_exit |-> exit, passthrough |-> FALSE, st |-> "ok"]
    [] OTHER ->
         [windows |-> ws, should_exit |-> exit, passthrough |-> TRUE, st |-> "ok"]

\* WindowManager::handle_manager_keys on the window list ws and exit flag.
HandleManagerKeys(ws, exit, e) ==
  CASE KeyBinding(e) = "resize_by" -> ResizeFocused(ws, exit, e)
    [] KeyBinding(e) = "move_by" -> MoveFocused(ws, exit, e)
    [] KeyBinding(e) = "exit" ->
         [windows |-> ws, should_exit |-> TRUE, passthrough |-> FALSE, st |-> "ok"]
    [] KeyBinding(e) = "rotate_down" ->
         [windows |-> IF Len(ws) # 0 THEN Tail(ws) \o <<Head(ws)>> ELSE ws,
          should_exit |-> exit, passthrough |-> FALSE, st |-> "ok"]
    [] KeyBinding(e) = "rotate_up" ->
         [windows |-> IF Len(ws) # 0
                      THEN <<ws[Len(ws)]>> \o SubSeq(ws, 1, Len(ws) - 1)
                      ELSE ws,
          should_exit |-> exit, passthrough |-> FALSE, st |-> "ok"]
    [] OTHER ->
         [windows |-> ws, should_exit |-> exit, passthrough |-> TRUE, st |-> "ok"]

\* WindowManager::draw_windows into r = [buf, st]
RECURSIVE DrawWindows(_, _)
DrawWindows(ws, r) ==
  IF ws = <<>> THEN r ELSE DrawWindows(Tail(ws), WindowDraw(Head(ws), r))

\* for win in &mut self.windows { win.update() }
RECURSIVE UpdateAll(_)
UpdateAll(ws) ==
  IF ws = <<>> THEN [windows |-> <<>>, st |-> "ok"]
  ELSE LET u == WindowUpdate(Head(ws))
           rest == UpdateAll(Tail(ws))
       IN IF u.st # "ok" THEN [windows |-> ws, st |-> u.st]
          ELSE [windows |-> <<u.win>> \o rest.windows, st |-> rest.st]

\* WindowManager::flush: the commands for the diff previous -> current.
Flush(bufs, cur) == Draw(BufferDiff(bufs[1 - cur], bufs[cur]))

\* WindowManager::swap_buffers
SwapBuffers(bufs, cur) ==
  [buffers |-> [i \in {0, 1} |-> IF i = 1 - cur THEN BufferReset(bufs[i]) ELSE bufs[i]],
   current |-> 1 - cur]

\* A fault inside an iteration of run: the process panics, or (a "debug"
\* fault in a build without debug assertions) goes on with wrapped values.
Fault(ws, st, winKey) ==
  /\ pc' \in (IF st = "index" THEN {"panicked"} ELSE {"panicked", "wrapped"})
  /\ windows' = ws
  /\ onlyWinKeys' = (onlyWinKeys /\ winKey)
  /\ UNCHANGED <<buffers, current, should_exit, width, height, screen, term,
                 nframes, nresizes, comp, prevComp, emitted>>

\* self.draw_windows(); self.update_screen()?; and the loop condition,
\* after the handler left the windows ws with status st.
Frame(ws, st, exit, winKey) ==
  \E r \in { IF st = "ok"
             THEN DrawWindows(ws, [buf |-> buffers[current], st |-> "ok"])
             ELSE [buf |-> buffers[current], st |-> st] } :
    IF r.st # "ok" THEN Fault(ws, r.st, winKey)
    ELSE \E drawn \in { [buffers EXCEPT ![current] = r.buf] } :
         \E t \in { TermRun([cx |-> term.cx, cy |-> term.cy, fg |-> term.fg,
                             bg |-> term.bg, attrs |-> term.attrs,
                             cells |-> screen, printed |-> {}, queue |-> <<>>],
                            Flush(drawn, current)) } :
         \E swapped \in { SwapBuffers(drawn, current) } :
           /\ windows' = ws
           /\ buffers' = swapped.buffers
           /\ current' = swapped.current
           /\ screen' = t.cells
           /\ term' = [cx |-> t.cx, cy |-> t.cy, fg |-> t.fg, bg |-> t.bg,
                       attrs |-> t.attrs]
           /\ should_exit' = exit
           /\ pc' = IF exit THEN "returned" ELSE "running"
           /\ nframes' = nframes + 1
           /\ prevComp' = comp
           /\ comp' = r.buf
           /\ emitted' = t.printed
           /\ onlyWinKeys' = (onlyWinKeys /\ winKey)
           /\ UNCHANGED <<width, height, nresizes>>

\* run: poll timed out.
Tick ==
  /\ pc = "running"
  /\ nframes < MaxFrames
  /\ \E u \in { UpdateAll(windows) } :
       Frame(u.windows, u.st, should_exit, TRUE)
  /\ lastEvent' = Polled("timeout", NoKey)
  /\ UNCHANGED <<diffVars, modVars, fnVars, clockVars>>

\* Variant of the pass-through that calls event whatever handle_manager_keys
\* returned.
PassThroughAlways(h) ==
  IF h.st = "ok" /\ Len(h.windows) # 0
  THEN [h EXCEPT !.windows[CurrentWindow + 1] = WindowEvent(@).win,
                 !.st = WindowEvent(h.windows[CurrentWindow + 1]).st]
  ELSE h

\* if passthrough && !self.windows.is_empty()
\*   { self.windows[self.current_window].event(Event::Key(e)) }
\* on h, what handle_manager_keys left.
PassThrough(h) ==
  IF h.st = "ok" /\ h.passthrough /\ Len(h.windows) # 0
  THEN [h EXCEPT !.windows[CurrentWindow + 1] = WindowEvent(@).win,
                 !.st = WindowEvent(h.windows[CurrentWindow + 1]).st]
  ELSE h

\* The Event::Key(e) arm of run up to the redraw.
HandleKey(ws, exit, e) == PassThrough(HandleManagerKeys(ws, exit, e))

\* run: Event::Key(e)
KeyEvent ==
  /\ pc = "running"
  /\ nframes < MaxFrames
  /\ \E e \in Keys :
       /\ \E f \in { HandleKey(windows, should_exit, e) } :
            Frame(f.windows, f.st, f.should_exit, e.ctrl /\ e.code \in Arrows)
       /\ lastEvent' = Polled("Key", e)
  /\ UNCHANGED <<diffVars, modVars, fnVars, clockVars>>

\* run: Event::Resize(width, height)
ResizeEvent ==
  /\ pc = "running"
  /\ nresizes < MaxResizes
  /\ \E sz \in TermSizes :
       /\ buffers' = [i \in {0, 1} |-> BufferResize(buffers[i], sz[1], sz[2])]
       /\ width' = sz[1]
       /\ height' = sz[2]
  /\ nresizes' = nresizes + 1
  /\ lastEvent' = Polled("Resize", NoKey)
  /\ UNCHANGED <<current, should_exit, windows, pc, screen, term, nframes,
                 comp, prevComp, emitted, onlyWinKeys, diffVars, modVars, fnVars, clockVars>>

\* Variant of the Mouse and Paste arms that falls through to the next
\* iteration like the `_ => ()` arm.
MouseOrPasteIgnored ==
  /\ pc = "running"
  /\ \E kind \in {"Mouse", "Paste"} : lastEvent' = Polled(kind, NoKey)
  /\ UNCHANGED <<buffers, current, should_exit, width, height, windows, pc,
                 screen, term, nframes, nresizes, comp, prevComp, emitted,
                 onlyWinKeys, diffVars, modVars, fnVars, clockVars>>

\* run: Event::Mouse(_) and Event::Paste(_) return Ok(()).
MouseOrPasteEvent ==
  /\ pc = "running"
  /\ pc' = "returned"
  /\ \E kind \in {"Mouse", "Paste"} : lastEvent' = Polled(kind, NoKey)
  /\ UNCHANGED <<buffers, current, should_exit, width, height, windows, screen,
                 term, nframes, nresizes, comp, prevComp, emitted, onlyWinKeys,
                 diffVars, modVars, fnVars, clockVars>>

\* run: any other event (focus gained or lost) falls to `_ => ()`.
OtherEvent ==
  /\ pc = "running"
  /\ lastEvent' = Polled("Other", NoKey)
  /\ UNCHANGED <<buffers, current, should_exit, width, height, windows, pc,
                 screen, term, nframes, nresizes, comp, prevComp, emitted,
                 onlyWinKeys, diffVars, modVars, fnVars, clockVars>>

FnIdle == f_op = "idle" /\ f_in = <<>> /\ f_out = <<>>

\* const FRAMETIME: Duration = Duration::from_millis(50)
FRAMETIME == 50

\* let now = Instant::now(); let next_frame = Instant::now() + FRAMETIME;
\* no event is waiting.
ClockStart == budget = FRAMETIME /\ pending = 0
DiffIdle == d_one = <<>> /\ d_two = <<>> /\ d_out = <<>> /\ d_pc = "idle"
ModIdle == m_from = {} /\ m_to = {} /\ m_out = <<>> /\ m_pc = "idle"

MgrInit ==
  /\ buffers = ManagerNew(GridW, GridH).buffers
  /\ current = ManagerNew(GridW, GridH).current
  /\ should_exit = ManagerNew(GridW, GridH).should_exit
  /\ width = GridW
  /\ height = GridH
  /\ pc = "running"
  /\ screen = BufferEmpty(GridW, GridH)
  /\ term = [cx |-> 0, cy |-> 0, fg |-> "Reset", bg |-> "Reset", attrs |-> {}]
  /\ nframes = 0
  /\ nresizes = 0
  /\ comp = BufferEmpty(GridW, GridH)
  /\ prevComp = BufferEmpty(GridW, GridH)
  /\ emitted = {}
  /\ onlyWinKeys = TRUE
  /\ lastEvent = Polled("None", NoKey)

\* The manager after new() and add_window(), at the start of run.
Init ==
  /\ MgrInit
  /\ windows \in WinConfigs
  /\ DiffIdle
  /\ ModIdle
  /\ FnIdle
  /\ ClockStart

Next ==
  \/ Tick
  \/ KeyEvent
  \/ ResizeEvent
  \/ MouseOrPasteEvent
  \/ OtherEvent

Spec == Init /\ [][Next]_vars

\* ------------------------------------- run with a failing backend write
\* Write errors in one behaviour, and the commands the terminal can have
\* received when a write fails.
MaxErrors == 1
MaxSent == 2

\* The write errors so far (f_out records the latest).
ErrorsSoFar == IF f_op = "write_error" THEN f_out.errors ELSE 0

\* One iteration of run (a timeout or a key event) whose update_screen
\* returns Err: a queue! inside flush fails (`?` skips swap_buffers), or
\* io::stdout().flush() fails after swap_buffers; the terminal has received
\* a proper prefix of the frame's commands.  run returns the error.
WriteError ==
  /\ pc = "running"
  /\ nframes < MaxFrames
  /\ ErrorsSoFar < MaxErrors
  /\ \E ev \in {Polled("timeout", NoKey)} \cup {Polled("Key", e) : e \in Keys} :
     \E h \in { IF ev.kind = "timeout"
                THEN [windows |-> UpdateAll(windows).windows,
                      should_exit |-> should_exit, st |-> UpdateAll(windows).st]
                ELSE [windows |-> HandleKey(windows, should_exit, ev.key).windows,
                      should_exit |-> HandleKey(windows, should_exit, ev.key).should_exit,
                      st |-> HandleKey(windows, should_exit, ev.key).st] } :
     \E r \in { IF h.st = "ok"
                THEN DrawWindows(h.windows, [buf |-> buffers[current], st |-> "ok"])
                ELSE [buf |-> buffers[current], st |-> h.st] } :
     \E drawn \in { [buffers EXCEPT ![current] = r.buf] } :
     \E cmds \in { Flush(drawn, current) } :
     \E sent \in 0..Min(MaxSent, Len(cmds) - 1) :
     \E site \in {"queue", "flush"} :
     \E t \in { TermRun([cx |-> term.cx, cy |-> term.cy, fg |-> term.fg,
                         bg |-> term.bg, attrs |-> term.attrs,
                         cells |-> screen, printed |-> {}, queue |-> <<>>],
                        SubSeq(cmds, 1, sent)) } :
       /\ r.st = "ok"
       /\ windows' = h.windows
       /\ should_exit' = h.should_exit
       /\ buffers' = IF site = "flush"
                     THEN SwapBuffers(drawn, current).buffers ELSE drawn
       /\ current' = IF site = "flush"
                     THEN SwapBuffers(drawn, current).current ELSE current
       /\ screen' = t.cells
       /\ term' = [cx |-> t.cx, cy |-> t.cy, fg |-> t.fg, bg |-> t.bg,
                   attrs |-> t.attrs]
       /\ pc' = "failed"
       /\ lastEvent' = ev
       /\ f_op' = "write_error"
       /\ f_in' = [site |-> site, sent |-> sent, of |-> Len(cmds)]
       /\ f_out' = [errors |-> ErrorsSoFar + 1, frames |-> nframes]
       /\ UNCHANGED <<width, height, nframes, nresizes, comp, prevComp, emitted,
                      onlyWinKeys, diffVars, modVars, clockVars>>

\* The caller, handed the error, calls run again: while !self.should_exit.
RunAgain ==
  /\ pc = "failed"
  /\ pc' = IF should_exit THEN "returned" ELSE "running"
  /\ UNCHANGED <<buffers, current, should_exit, width, height, windows, screen,
                 term, nframes, nresizes, comp, prevComp, emitted, onlyWinKeys,
                 lastEvent, diffVars, modVars, fnVars, clockVars>>

InitErr ==
  /\ MgrInit
  /\ windows = <<TestWindow>>
  /\ DiffIdle
  /\ ModIdle
  /\ FnIdle
  /\ ClockStart

NextErr ==
  \/ Tick
  \/ KeyEvent
  \/ WriteError
  \/ RunAgain

SpecErr == InitErr /\ [][NextErr]_vars

\* --------------------------------------------- run with two windows
\* A second window without content, overlapping the test's window.
NoneWindow ==
  WindowNew(<<"N">>, Rect(2, 1, 5, 3), [kind |-> "None", events |-> 0]).win

InitKeys ==
  /\ MgrInit
  /\ windows = <<TestWindow, NoneWindow>>
  /\ DiffIdle
  /\ ModIdle
  /\ FnIdle
  /\ ClockStart

NextKeys ==
  \/ Tick
  \/ KeyEvent

SpecKeys == InitKeys /\ [][NextKeys]_vars

\* ------------------------------------------------ Buffer::diff on its own
\* Grids up to MaxDiffW x MaxDiffH; the second differs from the first in at
\* most MaxChanged cells.
MaxDiffW == 3
MaxDiffH == 2
MaxChanged == 2

\* Cells that differ from the default cell in exactly one field each.
CellPalette ==
  <<DefaultCell,
    [DefaultCell EXCEPT !.symbol = "a"],
    [DefaultCell EXCEPT !.fg = "Red"],
    [DefaultCell EXCEPT !.bg = "Blue"],
    [DefaultCell EXCEPT !.modifier = {"BOLD"}],
    [DefaultCell EXCEPT !.skip = TRUE]>>

PaletteCells == { CellPalette[k] : k \in 1..Len(CellPalette) }

\* A grid whose cells run through the palette.
PatternGrid(w, h) ==
  [width |-> w, height |-> h,
   content |-> Vec([i \in 1..BufferSize(w, h) |->
                      CellPalette[((i - 1) % Len(CellPalette)) + 1]])]

FirstGrids ==
  UNION { { BufferEmpty(w, h), PatternGrid(w, h) } :
            w \in 1..MaxDiffW, h \in 1..MaxDiffH }

\* The grid a with the cells at the indices of f replaced by f's cells.
Overwrite(a, f) ==
  [a EXCEPT !.content =
     Vec([i \in 1..Len(a.content) |-> IF i \in DOMAIN f THEN f[i] ELSE a.content[i]])]

\* a.diff(b) for two grids of equal dimensions.
DiffTake ==
  /\ d_pc = "idle"
  /\ \E a \in FirstGrids :
       \E S \in { T \in SUBSET (1..Len(a.content)) : Cardinality(T) <= MaxChanged } :
         \E f \in [S -> PaletteCells] :
           /\ d_one' = a
           /\ d_two' = Overwrite(a, f)
           /\ d_out' = BufferDiff(a, Overwrite(a, f))
  /\ d_pc' = "diffed"
  /\ UNCHANGED <<mgrVars, modVars, fnVars, clockVars>>

\* The grid a after each yielded entry (x, y, cell) has been written to it.
RECURSIVE ApplyEntries(_, _)
ApplyEntries(a, entries) ==
  IF entries = <<>> THEN a
  ELSE ApplyEntries([a EXCEPT !.content[IndexOf(a, Head(entries).x, Head(entries).y) + 1] =
                       Head(entries).cell],
                    Tail(entries))

\* The first grid is brought up to date with the entries and diffed again.
DiffApply ==
  /\ d_pc = "diffed"
  /\ \E a \in { ApplyEntries(d_one, d_out) } :
       /\ d_one' = a
       /\ d_out' = BufferDiff(a, d_two)
  /\ d_pc' = "applied"
  /\ UNCHANGED <<d_two, mgrVars, modVars, fnVars, clockVars>>

InitAlone ==
  /\ MgrInit
  /\ windows = <<>>
  /\ DiffIdle
  /\ ModIdle
  /\ FnIdle
  /\ ClockStart

NextDiff ==
  \/ DiffTake
  \/ DiffApply

SpecDiff == InitAlone /\ [][NextDiff]_vars

\* ------------------------------------------- the scheduling of run
\* Which branch each iteration of the loop of run takes, without bound on
\* the iterations: the manager has no window, so a frame changes nothing of
\* it but the buffer in use; what the branches do to windows, grids and
\* screen is Tick and KeyEvent above.
\* The events the terminal can hold unread, and the milliseconds one
\* iteration can take.
MaxPending == 2
MaxElapsed == 5

\* The terminal receives an input event.
EventArrives ==
  /\ pending < MaxPending
  /\ pending' = pending + 1
  /\ UNCHANGED <<mgrVars, diffVars, modVars, fnVars, budget>>

\* poll(next_frame.duration_since(now)) returns true, at once when an event
\* is waiting: read() takes a key event, the Key arm handles it and renders,
\* now = Instant::now(); duration_since saturates at zero.
PollReady ==
  /\ pc = "running"
  /\ pending > 0
  /\ pending' = pending - 1
  /\ \E e \in Keys :
       /\ lastEvent' = Polled("Key", e)
       /\ should_exit' = (KeyBinding(e) = "exit")
       /\ pc' = IF KeyBinding(e) = "exit" THEN "returned" ELSE "running"
  /\ \E elapsed \in 0..MaxElapsed : budget' = SatSub(budget, elapsed)
  /\ current' = SwapBuffers(buffers, current).current
  /\ UNCHANGED <<buffers, width, height, windows, screen, term, nframes,
                 nresizes, comp, prevComp, emitted, onlyWinKeys, diffVars,
                 modVars, fnVars>>

\* poll returns false: no event came within the time left.  The tick
\* updates and renders, next_frame = Instant::now() + FRAMETIME.
PollTimedOut ==
  /\ pc = "running"
  /\ pending = 0
  /\ lastEvent' = Polled("timeout", NoKey)
  /\ budget' = FRAMETIME
  /\ current' = SwapBuffers(buffers, current).current
  /\ UNCHANGED <<buffers, should_exit, width, height, windows, pc, screen, term,
                 nframes, nresizes, comp, prevComp, emitted, onlyWinKeys,
                 pending, diffVars, modVars, fnVars>>

NextLoop ==
  \/ EventArrives
  \/ PollReady
  \/ PollTimedOut

\* The loop of run keeps iterating; nothing is assumed of the input.
SpecLoop ==
  /\ InitAlone
  /\ [][NextLoop]_vars
  /\ WF_vars(PollReady \/ PollTimedOut)


\* ------------------------------------------- ModifierDiff::queue on its own
ModTake ==
  /\ m_pc = "idle"
  /\ \E from \in SUBSET Modifier, to \in SUBSET Modifier :
       /\ m_from' = from
       /\ m_to' = to
       /\ m_out' = ModifierDiffQueue(from, to)
  /\ m_pc' = "done"
  /\ UNCHANGED <<mgrVars, diffVars, fnVars, clockVars>>

SpecMod == InitAlone /\ [][ModTake]_vars

\* ------------------------------------------------- Style::patch on its own
\* Every Style value over two colours and one attribute (the fields are
\* public, so add_modifier and sub_modifier may overlap), and Style::reset().
PatchColors == {"None", "Red", "Blue"}
PatchFlags == {"BOLD"}

PatchStyles ==
  [fg : PatchColors, bg : PatchColors, add_modifier : SUBSET PatchFlags,
   sub_modifier : SUBSET PatchFlags] \cup {StyleReset}

\* a.patch(b).patch(c) and a.patch(b.patch(c))
PatchTake ==
  /\ f_op = "idle"
  /\ \E a \in PatchStyles, b \in PatchStyles, c \in PatchStyles :
       /\ f_in' = [a |-> a, b |-> b, c |-> c]
       /\ f_out' = [left |-> StylePatch(StylePatch(a, b), c),
                    right |-> StylePatch(a, StylePatch(b, c))]
  /\ f_op' = "patch"
  /\ UNCHANGED <<mgrVars, diffVars, modVars, clockVars>>

SpecPatch == InitAlone /\ [][PatchTake]_vars

\* ------------------------------------------------- the Style builders
\* Two styles, "self" and "other", each built from Style::new() by any
\* sequence of the builder calls; patch takes the other one as argument.
\* f_out holds the two styles, f_in the slot and argument of the last call.
StyleSlots == {"self", "other"}
StyleColors == {"Red"}
StyleModifierArgs == { {"BOLD"}, {"BOLD", "DIM"} }

OtherSlot(slot) == IF slot = "self" THEN "other" ELSE "self"

StyleNewStep ==
  /\ \E slot \in StyleSlots :
       /\ f_in' = [slot |-> slot, arg |-> ""]
       /\ f_out' = [f_out EXCEPT ![slot] = StyleNew]
  /\ f_op' = "new"
  /\ UNCHANGED <<mgrVars, diffVars, modVars, clockVars>>

StyleResetStep ==
  /\ \E slot \in StyleSlots :
       /\ f_in' = [slot |-> slot, arg |-> ""]
       /\ f_out' = [f_out EXCEPT ![slot] = StyleReset]
  /\ f_op' = "reset"
  /\ UNCHANGED <<mgrVars, diffVars, modVars, clockVars>>

StyleFgStep ==
  /\ \E slot \in StyleSlots, color \in StyleColors :
       /\ f_in' = [slot |-> slot, arg |-> color]
       /\ f_out' = [f_out EXCEPT ![slot] = StyleFg(@, color)]
  /\ f_op' = "fg"
  /\ UNCHANGED <<mgrVars, diffVars, modVars, clockVars>>

StyleBgStep ==
  /\ \E slot \in StyleSlots, color \in StyleColors :
       /\ f_in' = [slot |-> slot, arg |-> color]
       /\ f_out' = [f_out EXCEPT ![slot] = StyleBg(@, color)]
  /\ f_op' = "bg"
  /\ UNCHANGED <<mgrVars, diffVars, modVars, clockVars>>

StyleAddStep ==
  /\ \E slot \in StyleSlots, modifier \in StyleModifierArgs :
       /\ f_in' = [slot |-> slot, arg |-> modifier]
       /\ f_out' = [f_out EXCEPT ![slot] = StyleAddModifier(@, modifier)]
  /\ f_op' = "add_modifier"
  /\ UNCHANGED <<mgrVars, diffVars, modVars, clockVars>>

StyleRemoveStep ==
  /\ \E slot \in StyleSlots, modifier \in StyleModifierArgs :
       /\ f_in' = [slot |-> slot, arg |-> modifier]
       /\ f_out' = [f_out EXCEPT ![slot] = StyleRemoveModifier(@, modifier)]
  /\ f_op' = "remove_modifier"
  /\ UNCHANGED <<mgrVars, diffVars, modVars, clockVars>>

StylePatchStep ==
  /\ \E slot \in StyleSlots :
       /\ f_in' = [slot |-> slot, arg |-> ""]
       /\ f_out' = [f_out EXCEPT ![slot] = StylePatch(@, f_out[OtherSlot(slot)])]
  /\ f_op' = "patch"
  /\ UNCHANGED <<mgrVars, diffVars, modVars, clockVars>>

InitStyle ==
  /\ MgrInit
  /\ windows = <<>>
  /\ DiffIdle
  /\ ModIdle
  /\ f_op = "new"
  /\ f_in = [slot |-> "self", arg |-> ""]
  /\ f_out = [self |-> StyleNew, other |-> StyleNew]
  /\ ClockStart

NextStyle ==
  \/ StyleNewStep
  \/ StyleResetStep
  \/ StyleFgStep
  \/ StyleBgStep
  \/ StyleAddStep
  \/ StyleRemoveStep
  \/ StylePatchStep

SpecStyle == InitStyle /\ [][NextStyle]_vars

\* ------------------------------------------ Buffer::set_stringn on its own
\* Grids of StrW x StrH cells filled with a cell that differs from the
\* default cell in every field but skip, texts of at most MaxTextLen
\* graphemes (one, two and zero columns wide), widths up to MaxWidthArg.
StrW == 4
StrH == 2
MaxTextLen == 3
MaxWidthArg == 5

StrGraphemes == {"a", "W", "z"}

RECURSIVE TextWidth(_)
TextWidth(string) ==
  IF string = <<>> THEN 0 ELSE GraphemeWidth(Head(string)) + TextWidth(Tail(string))

\* The texts over gs of at most n graphemes.
RECURSIVE TextsUpTo(_, _)
TextsUpTo(gs, n) ==
  IF n = 0 THEN { <<>> }
  ELSE TextsUpTo(gs, n - 1)
         \cup { t \o <<g>> : t \in { u \in TextsUpTo(gs, n - 1) : Len(u) = n - 1 },
                              g \in gs }

FillCell ==
  [symbol |-> ".", fg |-> "Blue", bg |-> "Red", modifier |-> {"ITALIC"},
   skip |-> FALSE]

\* Style::default() and a style that sets every field.
StrStyles ==
  { StyleDefault,
    [fg |-> "Red", bg |-> "Blue", add_modifier |-> {"BOLD"},
     sub_modifier |-> {"ITALIC"}] }

\* buf.set_stringn(x, y, string, width, style); x may be one past the row.
StrTake ==
  /\ f_op = "idle"
  /\ \E x \in 0..StrW, y \in 0..(StrH - 1), n \in 0..MaxWidthArg,
        string \in TextsUpTo(StrGraphemes, MaxTextLen), style \in StrStyles :
       \E buf \in { BufferFilled(StrW, StrH, FillCell) } :
         \E r \in { SetStringN([buf |-> buf, st |-> "ok"], x, y, string, n, style) } :
           /\ f_in' = [buf |-> buf, x |-> x, y |-> y, string |-> string,
                       width |-> n, style |-> style]
           /\ f_out' = [buf |-> r.buf, st |-> r.st, pos |-> r.pos]
  /\ f_op' = "set_stringn"
  /\ UNCHANGED <<mgrVars, diffVars, modVars, clockVars>>

SpecStr == InitAlone /\ [][StrTake]_vars

\* ------------------------------------- WindowManager::draw on its own
\* One render pass from a screen showing the grid `one` to the grid `two`;
\* both are rows of text written by set_stringn, wide graphemes included.
MaxRowW == 4
RowH == 2

RowGraphemes == {"a", "W"}

\* A blank MaxRowW x RowH grid with the text written from the start of row y.
RowGrid(string, y) ==
  SetStringN([buf |-> BufferEmpty(MaxRowW, RowH), st |-> "ok"], 0, y, string,
             MaxRowW, StyleDefault).buf

RowGrids ==
  { RowGrid(t, y) : t \in { u \in TextsUpTo(RowGraphemes, MaxRowW) :
                              TextWidth(u) <= MaxRowW },
                    y \in 0..(RowH - 1) }

\* The terminal showing `cells`, cursor at the origin, nothing queued.
TermShowing(cells) ==
  [cx |-> 0, cy |-> 0, fg |-> "Reset", bg |-> "Reset", attrs |-> {},
   cells |-> cells, printed |-> {}, queue |-> <<>>]

\* Where the terminal's cursor is when it takes each Print of cmds, in order.
PrintCursors(t, cmds) ==
  LET at == SelectSeq(Vec([j \in 1..Len(cmds) |-> j]),
                      LAMBDA j : cmds[j].op = "Print")
  IN Vec([k \in 1..Len(at) |->
            <<TermRun(t, SubSeq(cmds, 1, at[k] - 1)).cx,
              TermRun(t, SubSeq(cmds, 1, at[k] - 1)).cy>>])

\* self.draw(io::stdout(), one.diff(two)) with the terminal showing `one`.
DrawTake ==
  /\ f_op = "idle"
  /\ \E one \in RowGrids, two \in RowGrids :
       \E diff \in { BufferDiff(one, two) } :
         /\ f_in' = [one |-> one, two |-> two]
         /\ f_out' = [diff |-> diff,
                      cursors |-> PrintCursors(TermShowing(one), Draw(diff))]
  /\ f_op' = "draw"
  /\ UNCHANGED <<mgrVars, diffVars, modVars, clockVars>>

SpecDraw == InitAlone /\ [][DrawTake]_vars

\* ------------------------------- WindowManager::draw over styled cells
\* One row of MaxPassW cells, each blank or a grapheme with a foreground, a
\* background and attributes, rendered over a blank screen.
MaxPassW == 3

PassColors == {"Reset", "Red"}
PassModifiers == { {}, {"BOLD"}, {"ITALIC"} }
PassCells ==
  {DefaultCell} \cup
    { [symbol |-> "a", fg |-> f, bg |-> b, modifier |-> m, skip |-> FALSE] :
        f \in PassColors, b \in PassColors, m \in PassModifiers }
PassGrids ==
  { [width |-> MaxPassW, height |-> 1, content |-> Vec(c)] :
      c \in [1..MaxPassW -> PassCells] }

\* self.draw(io::stdout(), blank.diff(two)) with the terminal's cursor in
\* column cx when the pass starts.
PassTake ==
  /\ f_op = "idle"
  /\ \E two \in PassGrids, cx \in 0..(MaxPassW - 1) :
       \E one \in { BufferEmpty(MaxPassW, 1) } :
       \E diff \in { BufferDiff(one, two) } :
       \E cmds \in { Draw(diff) } :
       \E t \in { TermRun([TermShowing(one) EXCEPT !.cx = cx], cmds) } :
         /\ f_in' = [one |-> one, two |-> two, cursor |-> <<cx, 0>>]
         /\ f_out' = [diff |-> diff, cmds |-> cmds, cursor |-> <<t.cx, t.cy>>,
                      cells |-> t.cells]
  /\ f_op' = "pass"
  /\ UNCHANGED <<mgrVars, diffVars, modVars, clockVars>>

SpecPass == InitAlone /\ [][PassTake]_vars

\* ------------------------------------------------ Window::new on its own
\* The widths and heights of the areas handed to Window::new.
MaxNewW == 4
MaxNewH == 4

NewTitles == { <<>>, <<"T">> }
NewContents == { [kind |-> "None", events |-> 0],
                 [kind |-> "Test", int |-> 0, events |-> 0] }

\* Window::new(title, Rect { 0, 0, w, h }, content): it returns the window,
\* or (area.width - 2 or area.height - 2 overflowing) panics in a build with
\* overflow checks and returns a window with a wrapped interior without.
WindowNewTake ==
  /\ f_op = "idle"
  /\ \E w \in 0..MaxNewW, h \in 0..MaxNewH, title \in NewTitles,
        content \in NewContents :
       \E r \in { WindowNew(title, Rect(0, 0, w, h), content) } :
       \E st \in (IF r.st = "ok" THEN {"ok"} ELSE {"panicked", "wrapped"}) :
         /\ f_in' = [title |-> title, area |-> Rect(0, 0, w, h), content |-> content]
         /\ f_out' = [st |-> st,
                      windows |-> IF st = "panicked" THEN <<>>
                                  ELSE << [area |-> r.win.area,
                                           interior |-> << r.win.buffer.width,
                                                           r.win.buffer.height,
                                                           Len(r.win.buffer.content) >>] >>]
  /\ f_op' = "Window::new"
  /\ UNCHANGED <<mgrVars, diffVars, modVars, clockVars>>

SpecNew == InitAlone /\ [][WindowNewTake]_vars

\* ------------------------------------- the Buffer constructors on their own
\* Widths and heights over the range of u16.
BufferDims == {0, 1, 2, 255, 256, 257, 65535}

\* width * height does not fit u16: a panic where overflow checks are
\* compiled in, a wrapped product elsewhere.
MulOverflows(a, b) == a # 0 /\ b > (U16 - 1) \div a

\* What a constructor that returned buf reports: its fields and the length
\* of its Vec.
Sized(buf) ==
  [width |-> buf.width, height |-> buf.height, cells |-> Len(buf.content)]

\* Buffer::empty(w, h), Buffer::filled(w, h, &cell), or resize(w, h) on a
\* 2x2 buffer.
BufferSizeTake ==
  /\ f_op = "idle"
  /\ \E w \in BufferDims, h \in BufferDims, op \in {"empty", "filled", "resize"} :
       \E st \in (IF MulOverflows(w, h) THEN {"panicked", "wrapped"} ELSE {"ok"}) :
         /\ f_op' = op
         /\ f_in' = [width |-> w, height |-> h]
         /\ f_out' = [st |-> st,
                      buf |-> IF st = "panicked" THEN Sized(BufferEmpty(0, 0))
                              ELSE CASE op = "empty" -> Sized(BufferEmpty(w, h))
                                     [] op = "filled" ->
                                          Sized(BufferFilled(w, h, CellSetSymbol(DefaultCell, "a")))
                                     [] op = "resize" ->
                                          Sized(BufferResize(BufferEmpty(2, 2), w, h))]
  /\ UNCHANGED <<mgrVars, diffVars, modVars, clockVars>>

SpecSize == InitAlone /\ [][BufferSizeTake]_vars

\* ------------------------------------------ the scrollbar of draw_border
\* The largest area drawn, and the scroll fractions a content reports.
MaxBarW == 4
MaxBarH == 8

BarFractions == { <<0, 1>>, <<3, 10>>, <<1, 2>>, <<9, 10>>, <<1, 1>> }

\* A window of the given area whose content reported ContentInfo::pos(pos).
BarWindow(area, pos) ==
  [title |-> <<>>, area |-> area,
   buffer |-> BufferEmpty(area.width - 2, area.height - 2),
   content |-> [kind |-> "None", events |-> 0],
   content_info |-> ContentInfoPos(pos)]

\* Window::draw of such a window onto a blank grid with room for all it
\* draws; the result is the column of the window's right edge, from the row
\* of the top border downwards.
BarTake ==
  /\ f_op = "idle"
  /\ \E w \in 3..MaxBarW, h \in 4..MaxBarH, x \in 0..1, y \in 0..1,
        pos \in BarFractions :
       \E r \in { WindowDraw(BarWindow(Rect(x, y, w, h), pos),
                              [buf |-> BufferEmpty(MaxBarW + 2, MaxBarH + 3),
                               st |-> "ok"]) } :
         /\ f_in' = [area |-> Rect(x, y, w, h), pos |-> pos]
         /\ f_out' = [st |-> r.st,
                      edge |-> [k \in 1..(h + 1) |->
                                  r.buf.content[IndexOf(r.buf, x + w - 1, y + k - 1) + 1].symbol]]
  /\ f_op' = "scrollbar"
  /\ UNCHANGED <<mgrVars, diffVars, modVars, clockVars>>

SpecBar == InitAlone /\ [][BarTake]_vars

\* ------------------------------------- key events over a list of windows
\* The longest window list, and the key events handled in one behaviour.
MaxWindows == 3
MaxKeys == 3

\* The i-th window added: its own title and area; the first has the test's
\* content, the others have none.
RotNames == <<"A", "B", "C", "D", "E">>
RotWindow(i) ==
  WindowNew(<<RotNames[i]>>, Rect(i - 1, 0, 4, 3),
            IF i = 1 THEN [kind |-> "Test", int |-> 0, events |-> 0]
            ELSE [kind |-> "None", events |-> 0]).win

\* The window lists after zero or more add_window calls.
RotLists == { [i \in 1..n |-> RotWindow(i)] : n \in 0..MaxWindows }

\* The key events handled so far in this behaviour.
KeysSoFar == IF f_op = "keys" THEN f_in.n ELSE 0

\* The Event::Key arm of run up to the recomposite: handle_manager_keys and,
\* for a key it passes through, the focused window's event.
RotKey ==
  /\ f_op \in {"idle", "keys"}
  /\ KeysSoFar < MaxKeys
  /\ f_op = "keys" => f_out.st = "ok"
  /\ \E ws \in (IF f_op = "idle" THEN RotLists ELSE {f_out.windows}),
        e \in Keys :
       \E h \in { HandleKey(ws, FALSE, e) } :
         /\ f_in' = [start |-> IF f_op = "idle" THEN ws ELSE f_in.start,
                     before |-> ws, key |-> e, n |-> KeysSoFar + 1]
         /\ f_out' = [windows |-> h.windows, st |-> h.st]
  /\ f_op' = "keys"
  /\ UNCHANGED <<mgrVars, diffVars, modVars, clockVars>>

SpecRot == InitAlone /\ [][RotKey]_vars

\* ------------------------------------------------------------ properties
\* A run of the manager that has neither panicked nor gone on with wrapped
\* arithmetic.
Sound == pc \in {"running", "returned"}

AllDefault(buf) == \A i \in 1..Len(buf.content) : buf.content[i] = DefaultCell

\* The cell of buf at (x, y); outside buf there is nothing but blank.
CellAt(buf, x, y) ==
  IF x < buf.width /\ y < buf.height /\ y * buf.width + x < Len(buf.content)
  THEN buf.content[y * buf.width + x + 1]
  ELSE DefaultCell

\* The symbols of n cells of buf from (x, y) rightwards.
RowText(buf, x, y, n) == [k \in 1..n |-> CellAt(buf, x + k - 1, y).symbol]

\* C1: with no terminal resize, after every completed update_screen the
\* screen (all-default at the start, changed only by what the renderer
\* emits) equals, cell for cell, the grid composited in that frame, which is
\* the now inactive buffer buffers[1 - current].
C1_ScreenIsComposite ==
  (Sound /\ nresizes = 0 /\ nframes > 0) =>
    /\ buffers[1 - current] = comp
    /\ screen = comp

\* Two frames of a window have been completed and the screen shows it.
C1_Witness ==
  /\ Sound /\ nresizes = 0 /\ nframes = 2 /\ windows # <<>>
  /\ ~AllDefault(screen)
  /\ screen = buffers[1 - current]
  /\ comp # prevComp

ChangedIndices(one, two) ==
  { i \in 0..(BufferArea(one) - 1) : one.content[i + 1] # two.content[i + 1] }

EntryIndex(buf, e) == e.y * buf.width + e.x

\* C2: for grids A and B of equal dimensions A.diff(B) yields exactly one
\* entry per index where the cells differ, in ascending row-major order,
\* each carrying (i mod width, i div width) and B's cell; A.diff(A) is empty;
\* and once A is updated with the entries a second diff yields nothing.
C2_DiffExact ==
  /\ d_pc = "diffed" =>
       /\ \A k \in 1..Len(d_out) :
            /\ d_out[k].x < d_two.width
            /\ d_out[k].y < d_two.height
            /\ d_out[k].cell = d_two.content[EntryIndex(d_two, d_out[k]) + 1]
       /\ \A k \in 1..(Len(d_out) - 1) :
            EntryIndex(d_two, d_out[k]) < EntryIndex(d_two, d_out[k + 1])
       /\ { EntryIndex(d_two, d_out[k]) : k \in 1..Len(d_out) }
            = ChangedIndices(d_one, d_two)
       /\ (d_one = d_two => d_out = <<>>)
  /\ d_pc = "applied" => (d_out = <<>> /\ d_one = d_two)

\* A diff of two entries, the last one for a cell that differs in its skip
\* flag only and lies in the second row.
C2_Witness ==
  /\ d_pc = "diffed"
  /\ Len(d_out) = 2
  /\ d_out[2].y = 1
  /\ d_out[2].cell.skip # d_one.content[EntryIndex(d_two, d_out[2]) + 1].skip
  /\ d_out[2].cell.symbol = d_one.content[EntryIndex(d_two, d_out[2]) + 1].symbol

\* The positions of the latest composite whose cell differs from the cell
\* the composite before it had there.
ChangedPositions ==
  { p \in (0..(comp.width - 1)) \X (0..(comp.height - 1)) :
      CellAt(comp, p[1], p[2]) # CellAt(prevComp, p[1], p[2]) }

\* C3: in every completed frame a print is emitted for position p if and
\* only if the cell at p in this frame's composite differs from the cell at
\* p in the previous frame's composite (the blank grid for the first frame).
C3_EmitsExactlyChanges ==
  (Sound /\ nframes > 0) => emitted = ChangedPositions

\* C4: for a window whose content's redraw writes "number: 0" and whose
\* update increments and rewrites the number, the first frame run renders
\* shows the content's initial redraw output, "number: 0", inside the border.
C4_FirstFrameShowsRedraw ==
  (Sound /\ nframes = 1 /\ windows # <<>> /\ windows[1].content.kind = "Test") =>
    RowText(comp, windows[1].area.x + 1, windows[1].area.y + 1, Len(NumberText(0)))
      = NumberText(0)

C6_InteriorDims ==
  \A i \in 1..Len(windows) :
    /\ windows[i].buffer.width = windows[i].area.width - 2
    /\ windows[i].buffer.height = windows[i].area.height - 2

\* C7: after any sequence of Control+arrow (move) and Control+Shift+arrow
\* (resize) bindings on the focused window the next draw_windows addresses
\* only coordinates inside the grid and completes without wrapping or
\* failing.
C7_StaysInsideGrid ==
  (onlyWinKeys /\ nresizes = 0 /\ windows # <<>>) => Sound

\* C8: applied in order to a terminal whose attribute state is `from`, the
\* directives ModifierDiff emits leave the terminal in state `to`.
C8_DirectivesReachTo ==
  m_pc = "done" => ApplyAttrs(m_from, m_out) = m_to

\* C9: for every pair with from # to, ModifierDiff emits strictly fewer
\* directives than reset-all-then-re-apply, 1 + the number of attributes of
\* `to`.
C9_FewerThanReset ==
  (m_pc = "done" /\ m_from # m_to) => Len(m_out) < 1 + Cardinality(m_to)

\* C9 (amended): ModifierDiff emits at most one directive per attribute in
\* which from and to differ, plus one; when attributes are only added (from
\* is a proper subset of to) that is strictly fewer than 1 + the number of
\* attributes of `to`.
C9_BoundedByChanges ==
  m_pc = "done" =>
    /\ Len(m_out) <= Cardinality((m_from \ m_to) \cup (m_to \ m_from)) + 1
    /\ (m_from \subseteq m_to /\ m_from # m_to) =>
         Len(m_out) < 1 + Cardinality(m_to)

\* Italic and underline added to bold: two directives, against four.
C9_Witness ==
  /\ m_pc = "done"
  /\ m_from = {"BOLD"}
  /\ m_to = {"BOLD", "ITALIC", "UNDERLINED"}
  /\ Len(m_out) = 2

\* C10: ModifierDiff(s, s) emits nothing for every s; BOLD -> BOLD|DIM emits
\* exactly enable-dim; BOLD|DIM -> DIM emits exactly normal-intensity
\* immediately followed by enable-dim.
C10_Examples ==
  m_pc = "done" =>
    /\ (m_from = m_to => m_out = <<>>)
    /\ (m_from = {"BOLD"} /\ m_to = {"BOLD", "DIM"}) => m_out = <<"Dim">>
    /\ (m_from = {"BOLD", "DIM"} /\ m_to = {"DIM"}) =>
         m_out = <<"NormalIntensity", "Dim">>

\* Bold dropped while dim stays.
C10_Witness ==
  /\ m_pc = "done"
  /\ m_from = {"BOLD", "DIM"}
  /\ m_to = {"DIM"}
  /\ Len(m_out) = 2

\* C11: at every print-grapheme command of a render pass the terminal's
\* cursor is at that diff entry's (x, y).
C11_CursorAtEntry ==
  f_op = "draw" =>
    /\ Len(f_out.cursors) = Len(f_out.diff)
    /\ \A k \in 1..Len(f_out.diff) :
         f_out.cursors[k] = <<f_out.diff[k].x, f_out.diff[k].y>>

\* The graphemes of the text that take columns, in order.
Visible(string) == SelectSeq(string, LAMBDA g : GraphemeWidth(g) > 0)

\* The columns a call may write to: from x up to min(grid width, x + max_width).
Room(buf, x, n) == SatSub(Min(buf.width, x + n), x)

\* How many of the graphemes gs fit into `room` columns one after the other.
FitCount(gs, room) ==
  LET fits == { n \in 0..Len(gs) : TextWidth(SubSeq(gs, 1, n)) <= room }
  IN CHOOSE n \in fits : \A m \in fits : m <= n

\* C12: set_stringn(x, y, text, max_width, style) modifies no cell outside
\* row y, columns [x, min(grid width, x + max_width)); when the next grapheme
\* is wider than the space left placement stops there: that grapheme is
\* neither placed nor split and no later, narrower grapheme is placed.
C12_StaysInRangeAndStops ==
  f_op = "set_stringn" =>
    LET n == FitCount(Visible(f_in.string), Room(f_in.buf, f_in.x, f_in.width))
        used == TextWidth(SubSeq(Visible(f_in.string), 1, n))
    IN /\ f_out.buf.width = f_in.buf.width
       /\ f_out.buf.height = f_in.buf.height
       /\ Len(f_out.buf.content) = Len(f_in.buf.content)
       /\ \A i \in 0..(Len(f_in.buf.content) - 1) :
            f_out.buf.content[i + 1] # f_in.buf.content[i + 1] =>
              /\ i \div f_in.buf.width = f_in.y
              /\ i % f_in.buf.width >= f_in.x
              /\ i % f_in.buf.width < Min(f_in.buf.width, f_in.x + f_in.width)
              /\ i % f_in.buf.width < f_in.x + used

\* A text whose second grapheme is wide and does not fit, followed by a
\* narrow one that would: only the first grapheme is placed.
C12_Witness ==
  /\ f_op = "set_stringn" /\ f_out.st = "ok"
  /\ f_in.string = <<"a", "W", "a">>
  /\ f_in.x = 1 /\ f_in.width = 2
  /\ f_out.buf.content[IndexOf(f_in.buf, 1, f_in.y) + 1].symbol = "a"
  /\ f_out.buf.content[IndexOf(f_in.buf, 2, f_in.y) + 1] = FillCell

\* C13: a width-2 grapheme placed at (x, y) leaves cell (x, y) holding the
\* whole grapheme with the style applied and cell (x + 1, y) equal to the
\* default cell; zero-width graphemes consume no cell; the returned position
\* is (x + total display width of the placed graphemes, y).
C13_WideAndReturn ==
  (f_op = "set_stringn" /\ f_out.st = "ok") =>
    LET gs == Visible(f_in.string)
        n == FitCount(gs, Room(f_in.buf, f_in.x, f_in.width))
        at(k) == f_in.x + TextWidth(SubSeq(gs, 1, k - 1))
        cell(c) == f_out.buf.content[IndexOf(f_in.buf, c, f_in.y) + 1]
    IN /\ \A k \in 1..n :
            /\ cell(at(k)) = CellSetStyle(CellSetSymbol(FillCell, gs[k]), f_in.style)
            /\ GraphemeWidth(gs[k]) = 2 => cell(at(k) + 1) = DefaultCell
       /\ f_out.pos = <<f_in.x + TextWidth(SubSeq(gs, 1, n)), f_in.y>>

\* A wide grapheme after a zero-width and a narrow one, all placed.
C13_Witness ==
  /\ f_op = "set_stringn" /\ f_out.st = "ok"
  /\ f_in.string = <<"z", "a", "W">>
  /\ f_in.x = 0 /\ f_in.y = 1
  /\ f_in.style # StyleDefault
  /\ f_out.pos = <<3, 1>>
  /\ f_out.buf.content[IndexOf(f_in.buf, 1, 1) + 1].symbol = "W"
  /\ f_out.buf.content[IndexOf(f_in.buf, 2, 1) + 1] = DefaultCell

\* C14: Style.patch is associative: a.patch(b).patch(c) = a.patch(b.patch(c))
\* for all styles a, b and c.
C14_PatchAssociative ==
  f_op = "patch" => f_out.left = f_out.right

\* Three styles that each say something else about the attribute and the
\* colours, the last one with add_modifier and sub_modifier overlapping.
C14_Witness ==
  /\ f_op = "patch"
  /\ f_in.a.add_modifier = {"BOLD"} /\ f_in.a.sub_modifier = {}
  /\ f_in.b.sub_modifier = {"BOLD"} /\ f_in.b.add_modifier = {}
  /\ f_in.c.add_modifier = {"BOLD"} /\ f_in.c.sub_modifier = {"BOLD"}
  /\ f_in.a.fg = "Red" /\ f_in.b.fg = "Blue" /\ f_in.c.fg = "None"
  /\ f_out.left.fg = "Blue"

\* What self.patch(other) leaves in self: other's additions are added, its
\* subtractions are subtracted and not added, its colours win when set.
PatchedBy(self, other, result) ==
  /\ other.add_modifier \subseteq result.add_modifier
  /\ other.sub_modifier \subseteq result.sub_modifier
  /\ other.sub_modifier \cap result.add_modifier = {}
  /\ result.fg = (IF other.fg # "None" THEN other.fg ELSE self.fg)
  /\ result.bg = (IF other.bg # "None" THEN other.bg ELSE self.bg)

\* C15: after any sequence of Style::new, reset, fg, bg, add_modifier,
\* remove_modifier and patch, add_modifier and sub_modifier are disjoint; and
\* after self.patch(other) every attribute other adds is in add_modifier,
\* every attribute other subtracts is in sub_modifier and absent from
\* add_modifier, and fg/bg are other's when other sets them, self's otherwise.
C15_DisjointAndPatched ==
  /\ [](\A slot \in StyleSlots :
          f_out[slot].add_modifier \cap f_out[slot].sub_modifier = {})
  /\ [][f_op' = "patch" =>
          PatchedBy(f_out[f_in'.slot], f_out[OtherSlot(f_in'.slot)],
                    f_out'[f_in'.slot])]_vars

\* self, reset and then given bold, has just been patched with a style that
\* sets a colour, adds dim and subtracts bold.
C15_Witness ==
  /\ f_op = "patch" /\ f_in.slot = "self"
  /\ f_out.other = [fg |-> "Red", bg |-> "None", add_modifier |-> {"DIM"},
                     sub_modifier |-> {"BOLD"}]
  /\ f_out.self = [fg |-> "Red", bg |-> "Reset", add_modifier |-> {"DIM"},
                    sub_modifier |-> Modifier \ {"DIM"}]

\* The key events the global bindings take: Control+arrow,
\* Control+Shift+arrow, Control+PageDown, Control+PageUp and Control+C.
Bound(e) ==
  /\ e.ctrl
  /\ \/ e.code \in {"Left", "Up", "Right", "Down"}
     \/ ~e.shift /\ e.code \in {"PageDown", "PageUp", "c"}

\* The number of event calls the windows of ws have received.
RECURSIVE EventCalls(_)
EventCalls(ws) ==
  IF ws = <<>> THEN 0 ELSE Head(ws).content.events + EventCalls(Tail(ws))

\* C16: for every key event exactly one of two things happens: a global
\* binding consumes it and no window's event capability is called, or it is
\* forwarded exactly once to the focused window (list index 0) and to no
\* other; every key without Control and every unbound Control chord is
\* forwarded.  Control+PageDown/PageUp rotate the list.
C16_ConsumedOrForwarded ==
  [][(lastEvent'.kind = "Key" /\ windows # <<>>) =>
       IF Bound(lastEvent'.key)
       THEN /\ EventCalls(windows') = EventCalls(windows)
            /\ (~lastEvent'.key.shift /\ lastEvent'.key.code = "PageDown") =>
                  windows' = Tail(windows) \o <<Head(windows)>>
            /\ (~lastEvent'.key.shift /\ lastEvent'.key.code = "PageUp") =>
                  windows' = <<windows[Len(windows)]>>
                               \o SubSeq(windows, 1, Len(windows) - 1)
       ELSE /\ Len(windows') = Len(windows)
            /\ windows'[1].content.events = windows[1].content.events + 1
            /\ \A i \in 2..Len(windows) :
                 windows'[i].content.events = windows[i].content.events]_vars

\* After Control+PageDown the window without content is first in the list,
\* and a plain key has been forwarded to it and not to the other window.
C16_Witness ==
  /\ lastEvent.kind = "Key" /\ ~lastEvent.key.ctrl
  /\ Len(windows) = 2
  /\ windows[1].content.kind = "None"
  /\ windows[1].content.events = 1
  /\ windows[2].content.events = 0

\* Control+C without Shift.
IsCtrlC(e) == e.ctrl /\ ~e.shift /\ e.code = "c"

\* C17: once Control+C has been handled the exit flag stays set; the loop
\* completes that iteration's recomposite and render exactly once and run
\* then returns Ok, with no further poll, read or update.
C17_ExitAfterOneRender ==
  /\ [][(lastEvent'.kind = "Key" /\ IsCtrlC(lastEvent'.key)) =>
          (should_exit' /\ pc' = "returned" /\ nframes' = nframes + 1)]_vars
  /\ [][~should_exit /\ pc = "running"]_vars

\* Both double-buffer grids have the dimensions (w, h).
BothSized(bufs, w, h) ==
  \A i \in {0, 1} :
    /\ bufs[i].width = w
    /\ bufs[i].height = h
    /\ Len(bufs[i].content) = w * h

\* C18: on a Resize(columns, rows) event both double-buffer grids are resized
\* to (columns, rows), the two grids have equal dimensions in every reachable
\* state, and the same loop iteration then recomposites all windows, diffs
\* and renders.
C18_ResizeThenRender ==
  /\ [](BothSized(buffers, width, height))
  /\ [][lastEvent'.kind = "Resize" =>
          (BothSized(buffers', width', height') /\ nframes' = nframes + 1)]_vars

\* Nothing of the manager, the screen or the frame count changes in the step.
NothingRendered ==
  UNCHANGED <<buffers, current, should_exit, width, height, windows, screen,
              term, nframes, nresizes, comp, prevComp, emitted>>

\* C19: when the event read is a Mouse or Paste event, or any other event
\* kind that is neither Key nor Resize, run terminates immediately: no
\* recomposite, render, update or further poll happens after it.
C19_AnyOtherTerminates ==
  /\ [][lastEvent'.kind \in {"Mouse", "Paste", "Other"} =>
          (pc' = "returned" /\ NothingRendered)]_vars
  /\ [][pc = "running"]_vars

\* C19 (amended): a Mouse or Paste event terminates run immediately, with no
\* recomposite, render, update or further poll after it; any other event
\* kind that is neither Key nor Resize is ignored, nothing is rendered for it
\* and the loop goes on polling.
C19_MouseOrPasteTerminates ==
  /\ [][lastEvent'.kind \in {"Mouse", "Paste"} =>
          (pc' = "returned" /\ NothingRendered)]_vars
  /\ [][lastEvent'.kind = "Other" => (pc' = "running" /\ NothingRendered)]_vars
  /\ [][pc = "running"]_vars

\* A Paste event after one rendered frame: run has returned.
C19_Witness ==
  /\ lastEvent.kind = "Paste"
  /\ pc = "returned"
  /\ nframes = 1
  /\ windows # <<>>

\* The window's area contains the position (x, y).
Covered(win, x, y) ==
  /\ win.area.x <= x
  /\ x < win.area.x + win.area.width
  /\ win.area.y <= y
  /\ y < win.area.y + win.area.height

\* What the window draws on its own onto a blank grid as large as buf.
DrawnAlone(win, buf) ==
  WindowDraw(win, [buf |-> BufferEmpty(buf.width, buf.height), st |-> "ok"]).buf

\* The latest window in list order, of those numbered in cov.
Latest(cov) == CHOOSE i \in cov : \A j \in cov : j <= i

\* C20: after draw_windows, every cell of the current grid covered by one or
\* more windows holds the value drawn by the window latest in list order that
\* covers it, and every cell covered by no window is the default cell.
C20_LatestCoveringWins ==
  (Sound /\ nframes > 0) =>
    \A x \in 0..(comp.width - 1), y \in 0..(comp.height - 1) :
      LET cov == { i \in 1..Len(windows) : Covered(windows[i], x, y) }
      IN IF cov = {}
         THEN CellAt(comp, x, y) = DefaultCell
         ELSE CellAt(comp, x, y) =
                CellAt(DrawnAlone(windows[Latest(cov)], comp), x, y)

\* C21: a render pass that fails with a backend write error makes run return
\* the error without retrying (nothing more is rendered until the caller
\* calls run again), and after the next frame that renders successfully the
\* screen equals that frame's composited grid.
C21_ErrorThenConverges ==
  /\ [][f_op' = "write_error" /\ f_op # "write_error" =>
          (pc' = "failed" /\ nframes' = nframes)]_vars
  /\ [][pc = "failed" => (screen' = screen /\ nframes' = nframes)]_vars
  /\ []((f_op = "write_error" /\ nframes = f_out.frames + 1 /\ Sound) =>
          screen = comp)

\* C22: in every execution of run that does not terminate, timeout ticks
\* occur infinitely often, however many input events keep arriving.
C22_TicksForever ==
  <>(pc # "running") \/ []<>(lastEvent.kind = "timeout")

\* The indices of the Print commands of cmds, in order.
Prints(cmds) ==
  SelectSeq(Vec([j \in 1..Len(cmds) |-> j]), LAMBDA j : cmds[j].op = "Print")

\* The commands issued for the k-th diff entry: those after the Print of
\* the entry before it, up to its own Print.
Segment(cmds, k) ==
  SubSeq(cmds, IF k = 1 THEN 1 ELSE Prints(cmds)[k - 1] + 1, Prints(cmds)[k])

\* The commands of seg with the operation op.
Issued(seg, op) == SelectSeq(seg, LAMBDA c : c.op = op)

\* The order the claim gives the commands of an entry, and the order of
\* WindowManager::draw.
ColorsFirst ==
  << "MoveTo", "SetForegroundColor", "SetBackgroundColor", "SetAttribute", "Print" >>

AttributesFirst ==
  << "MoveTo", "SetAttribute", "SetForegroundColor", "SetBackgroundColor", "Print" >>

\* The place of the operation op in the order.
Place(order, op) == CHOOSE i \in 1..Len(order) : order[i] = op

\* What an entry is compared with: the entry before it, or for the first
\* entry the reset colours, no attribute and no position.
Before(diff, k) ==
  IF k = 1
  THEN [x |-> 0 - 2, y |-> 0 - 2, fg |-> "Reset", bg |-> "Reset", modifier |-> {}]
  ELSE [x |-> diff[k - 1].x, y |-> diff[k - 1].y, fg |-> diff[k - 1].cell.fg,
        bg |-> diff[k - 1].cell.bg, modifier |-> diff[k - 1].cell.modifier]

\* The commands of the k-th entry: in the order given, a move exactly when
\* the entry is not right of the one before, a colour command exactly when
\* the colour differs from the one before, attribute directives only when
\* the attributes differ, and the Print of the entry's grapheme last.
EntryCommands(diff, cmds, k, order) ==
  LET seg == Segment(cmds, k)
      e == diff[k]
      b == Before(diff, k)
  IN /\ \A i \in 1..Len(seg), j \in 1..Len(seg) :
          i < j => Place(order, seg[i].op) <= Place(order, seg[j].op)
     /\ seg[Len(seg)] = Cmd("Print", 0, 0, e.cell.symbol)
     /\ Issued(seg, "MoveTo") =
          IF e.x = b.x + 1 /\ e.y = b.y THEN <<>> ELSE <<Cmd("MoveTo", e.x, e.y, "")>>
     /\ Issued(seg, "SetForegroundColor") =
          IF e.cell.fg = b.fg THEN <<>>
          ELSE <<Cmd("SetForegroundColor", 0, 0, e.cell.fg)>>
     /\ Issued(seg, "SetBackgroundColor") =
          IF e.cell.bg = b.bg THEN <<>>
          ELSE <<Cmd("SetBackgroundColor", 0, 0, e.cell.bg)>>
     /\ (e.cell.modifier = b.modifier) => Issued(seg, "SetAttribute") = <<>>

C24_ResetAndCursorRestored ==
  f_op = "pass" =>
    LET cmds == f_out.cmds
        last == IF Prints(cmds) = <<>> THEN 0 ELSE Prints(cmds)[Len(Prints(cmds))]
    IN /\ SubSeq(cmds, last + 1, Len(cmds)) =
            << Cmd("SetForegroundColor", 0, 0, "Reset"),
               Cmd("SetBackgroundColor", 0, 0, "Reset"),
               Cmd("SetAttribute", 0, 0, "Reset") >>
       /\ f_out.cursor = f_in.cursor

\* C25: Window::new with area.width < 3 or area.height < 3 fails loudly
\* instead of constructing a window; no window with an area smaller than
\* 3x3 exists.
C25_SmallAreaRejected ==
  f_op = "Window::new" =>
    /\ (f_in.area.width < 3 \/ f_in.area.height < 3) => f_out.st = "panicked"
    /\ \A i \in 1..Len(f_out.windows) :
         f_out.windows[i].area.width >= 3 /\ f_out.windows[i].area.height >= 3

\* C26: for every width and height representable as u16, after
\* Buffer::empty, Buffer::filled or Buffer::resize the number of cells is the
\* mathematical product width * height, with no 16-bit wrap-around.
C26_CellsAreProduct ==
  f_op \in {"empty", "filled", "resize"} =>
    /\ f_out.st = "ok"
    /\ f_out.buf.width = f_in.width
    /\ f_out.buf.height = f_in.height
    /\ ~MulOverflows(f_in.width, f_in.height)
    /\ f_out.buf.cells = f_in.width * f_in.height

\* floor(n * pos) for a fraction pos = <<numerator, denominator>>.
FloorTimes(n, pos) == (n * pos[1]) \div pos[2]

\* C27: with a scrollbar, the right edge shows the up arrow at the first
\* interior row, the down arrow at the last interior row, the track on every
\* row between them, and the thumb floor((interior_height - 4) *
\* scroll_fraction) rows below the track start; for every fraction in [0, 1]
\* the thumb lies strictly between the two arrows.
C27_ScrollbarGeometry ==
  f_op = "scrollbar" =>
    LET interior_height == f_in.area.height - 2
        first == 1
        last == interior_height
        thumb == (first + 1) + FloorTimes(interior_height - 4, f_in.pos)
    IN /\ f_out.st = "ok"
       /\ f_out.edge[first + 1] = GlyphUp
       /\ f_out.edge[last + 1] = GlyphDown
       /\ first < thumb /\ thumb < last
       /\ \A row \in (first + 1)..(last - 1) :
            f_out.edge[row + 1] = IF row = thumb THEN GlyphThumb ELSE GlyphTrack

\* The window list after Control+PageDown, after Control+PageUp, and after
\* n successive Control+PageDowns.
AfterPageDown(ws) == HandleManagerKeys(ws, FALSE, Key("PageDown", TRUE, FALSE)).windows
AfterPageUp(ws) == HandleManagerKeys(ws, FALSE, Key("PageUp", TRUE, FALSE)).windows
RECURSIVE AfterPageDowns(_, _)
AfterPageDowns(ws, n) ==
  IF n = 0 THEN ws ELSE AfterPageDowns(AfterPageDown(ws), n - 1)

\* The titles of the windows of ws, in list order and as a set.
Titles(ws) == [i \in 1..Len(ws) |-> ws[i].title]
TitleSet(ws) == { ws[i].title : i \in 1..Len(ws) }

\* C28: Control+PageDown moves the first window to the end of the list and
\* Control+PageUp moves the last window to the front; the two are mutually
\* inverse, n successive PageDowns on a list of n windows restore the
\* original order, and after any sequence of key events the list holds
\* exactly the same windows (none lost or duplicated), the focused window
\* being list index 0.
C28_RotationsKeepTheList ==
  (f_op = "keys" /\ f_out.st = "ok") =>
    LET before == f_in.before
        after == f_out.windows
        binding == KeyBinding(f_in.key)
    IN /\ (binding = "rotate_down" /\ before # <<>>) =>
            after = Tail(before) \o <<Head(before)>>
       /\ (binding = "rotate_up" /\ before # <<>>) =>
            after = <<before[Len(before)]>> \o SubSeq(before, 1, Len(before) - 1)
       /\ AfterPageUp(AfterPageDown(after)) = after
       /\ AfterPageDown(AfterPageUp(after)) = after
       /\ AfterPageDowns(after, Len(after)) = after
       /\ Len(after) = Len(f_in.start)
       /\ TitleSet(after) = TitleSet(f_in.start)
       /\ Cardinality(TitleSet(after)) = Len(after)
       /\ CurrentWindow = 0
       /\ binding \notin {"rotate_down", "rotate_up"} =>
            \A i \in 2..Len(after) : after[i] = before[i]

\* Three windows; Control+PageUp, a key that moved the window now in front,
\* then Control+PageDown.
C28_Witness ==
  /\ f_op = "keys" /\ f_out.st = "ok"
  /\ f_in.n = 3
  /\ KeyBinding(f_in.key) = "rotate_down"
  /\ Titles(f_in.start) = << <<"A">>, <<"B">>, <<"C">> >>
  /\ Titles(f_out.windows) = Titles(f_in.start)
  /\ f_out.windows[3].area # f_in.start[3].area

\* A cell no window draws, and a parent grid as large as buf filled with it.
MarkedCell == [DefaultCell EXCEPT !.symbol = "?"]
MarkedGrid(buf) == BufferFilled(buf.width, buf.height, MarkedCell)

\* C29: Window.draw modifies no cell of the parent grid outside the window's
\* area rectangle [area.x, area.x + area.width) x [area.y, area.y +
\* area.height), after construction and after any sequence of resize and
\* move operations.
C29_DrawStaysInArea ==
  (Sound /\ nframes > 0) =>
    \A i \in 1..Len(windows) :
      LET drawn == WindowDraw(windows[i], [buf |-> MarkedGrid(comp), st |-> "ok"])
      IN drawn.st = "ok" =>
           \A x \in 0..(comp.width - 1), y \in 0..(comp.height - 1) :
             ~Covered(windows[i], x, y) => CellAt(drawn.buf, x, y) = MarkedCell

\* C30: with an empty window list every key event, Control+arrow and
\* Control+Shift+arrow included, is handled without failure: no window is
\* addressed, and the loop goes on to recomposite and render.
C30_EmptyListHandlesKeys ==
  [][(windows = <<>> /\ lastEvent'.kind = "Key") =>
       /\ pc' \in {"running", "returned"}
       /\ windows' = <<>>
       /\ nframes' = nframes + 1]_vars

====
